---- MODULE Spec2Model ----
(***************************************************************************)
(* Model of the CudaText plugin cuda_complete_from_text: word completion   *)
(* from the text of the open documents, merged with the entries of a       *)
(* per-lexer .acp dictionary file.                                         *)
(*                                                                         *)
(* Python strings are sequences of one-character strings.  A Python index  *)
(* i (0-based) is position i+1 here; the operators that model functions    *)
(* returning an index (find) keep the Python 0-based value.                *)
(***************************************************************************)
EXTENDS Integers, Sequences, FiniteSets, TLC

VARIABLES
    \* module-level option globals (read from plugins.ini when the plugin loads)
    option_lexers, option_min_len, option_case_sens, option_what_editors,
    option_max_lines, option_use_acp, option_show_acp_first,
    option_case_split, option_underscore_split, option_fuzzy,
    \* module-level global written by get_completions, read by isword
    nonwords,
    \* the host editor: the focused tab and its carets
    ed_self, carets,
    \* the last request (which entry point, with which arguments) and what it
    \* produced: the value get_completions returned,
    \* the list handed to ed.complete, the tabs whose text was scanned, the
    \* .acp files that were read
    request, res, completed, scanned, acp_read,
    \* a direct invocation of one matching function and the value it returned
    call, ret,
    \* one activation of spl_match, executed statement by statement
    spl

vars == << option_lexers, option_min_len, option_case_sens, option_what_editors,
           option_max_lines, option_use_acp, option_show_acp_first,
           option_case_split, option_underscore_split, option_fuzzy,
           nonwords, ed_self, carets,
           request, res, completed, scanned, acp_read, call, ret, spl >>

(***************************************************************************)
(* Characters                                                              *)
(***************************************************************************)

\* The printable ASCII characters in code-point order (32..126).  A character
\* is an atom; the two that cannot be written inside a string of this language
\* are spelled out: "grave" is the backtick (96), "ellipsis" is U+2026.
\* "emdash" (U+2014) stands for the characters that are neither \w nor
\* whitespace nor in NONWORDS_DEFAULT.
Ascii ==
    << " ", "!", "\"", "#", "$", "%", "&", "'", "(", ")", "*", "+", ",", "-", ".", "/",
       "0", "1", "2", "3", "4", "5", "6", "7", "8", "9", ":", ";", "<", "=", ">", "?",
       "@", "A", "B", "C", "D", "E", "F", "G", "H", "I", "J", "K", "L", "M", "N", "O",
       "P", "Q", "R", "S", "T", "U", "V", "W", "X", "Y", "Z", "[", "\\", "]", "^", "_",
       "grave", "a", "b", "c", "d", "e", "f", "g", "h", "i", "j", "k", "l", "m", "n", "o",
       "p", "q", "r", "s", "t", "u", "v", "w", "x", "y", "z", "{", "|", "}", "~" >>

Chars == { Ascii[i] : i \in 1..Len(Ascii) } \cup { "\t", "\n", "ellipsis", "emdash" }

\* Code point of a character (Python's ord).
ord ==
    [ c \in Chars |->
        IF c = "\t" THEN 9
        ELSE IF c = "\n" THEN 10
        ELSE IF c = "ellipsis" THEN 8230
        ELSE IF c = "emdash" THEN 8212
        ELSE 31 + (CHOOSE i \in 1..Len(Ascii) : Ascii[i] = c) ]

chr(n) == Ascii[n - 31]

\* str.upper / str.lower on one character.
char_upper == [ c \in Chars |-> IF ord[c] \in 97..122 THEN chr(ord[c] - 32) ELSE c ]
char_lower == [ c \in Chars |-> IF ord[c] \in 65..90 THEN chr(ord[c] + 32) ELSE c ]

\* The regex class A-Z, str.isdigit, the regex classes \w and \s.
is_AZ    == [ c \in Chars |-> ord[c] \in 65..90 ]
isdigit  == [ c \in Chars |-> ord[c] \in 48..57 ]
is_w     == [ c \in Chars |-> \/ ord[c] \in 48..57 \/ ord[c] \in 65..90
                              \/ ord[c] \in 97..122 \/ c = "_" ]
is_space == [ c \in Chars |-> c \in { " ", "\t", "\n" } ]

(***************************************************************************)
(* String helpers (Python built-ins)                                       *)
(***************************************************************************)

upper(s) == [ i \in 1..Len(s) |-> char_upper[s[i]] ]
lower(s) == [ i \in 1..Len(s) |-> char_lower[s[i]] ]

\* s[n:]
slice_from(s, n) == SubSeq(s, n + 1, Len(s))

\* s.startswith(p)
startswith(s, p) == Len(p) <= Len(s) /\ SubSeq(s, 1, Len(p)) = p

\* s.find(ch, start) for a one-character ch: the lowest Python index >= start
\* holding ch, or -1.
find(s, ch, start) ==
    LET hits == { i \in start..(Len(s) - 1) : i >= 0 /\ s[i + 1] = ch }
    IN  IF hits = {} THEN -1 ELSE CHOOSE i \in hits : \A j \in hits : i <= j

RECURSIVE lstrip(_, _)
lstrip(s, ch) == IF s # << >> /\ Head(s) = ch THEN lstrip(Tail(s), ch) ELSE s

RECURSIVE rstrip(_, _)
rstrip(s, ch) ==
    IF s # << >> /\ s[Len(s)] = ch THEN rstrip(SubSeq(s, 1, Len(s) - 1), ch) ELSE s

\* s.strip(ch)
strip(s, ch) == rstrip(lstrip(s, ch), ch)

\* The element of a one-element set.  { F(x) : x \in { e } } evaluates e once
\* and F on its value; Only takes the result out.
Only(S) == CHOOSE x \in S : TRUE

\* min(a, b), max(a, b)
min(a, b) == IF a <= b THEN a ELSE b
max(a, b) == IF a >= b THEN a ELSE b

\* The end (1-based, inclusive) of the longest run of characters of class cls
\* that starts at position p; p - 1 when s[p] is not in the class.  This is
\* what a greedy [cls]* consumes from p on.
run_end(s, p, cls) ==
    CHOOSE q \in (p - 1)..Len(s) :
        /\ \A k \in p..q : cls[s[k]]
        /\ q = Len(s) \/ ~cls[s[q + 1]]

(***************************************************************************)
(* Matching strategies                                                     *)
(***************************************************************************)

\* Mutant of is_plain_match: the case rule is not looked at.
is_plain_match_ignore_case(stext, sfind) == startswith(upper(stext), upper(sfind))

is_plain_match(stext, sfind) ==
    IF option_case_sens
    THEN startswith(stext, sfind)
    ELSE startswith(upper(stext), upper(sfind))

\* Mutant of fuzzy_scan: the search restarts at the previous hit instead of
\* after it (find(ch, n) for find(ch, n+1)).
RECURSIVE fuzzy_scan_from_hit(_, _, _, _)
fuzzy_scan_from_hit(stext, sfind, k, n) ==
    IF k > Len(sfind) THEN TRUE
    ELSE LET m == find(stext, sfind[k], n)
         IN  IF m < 0 THEN FALSE ELSE fuzzy_scan_from_hit(stext, sfind, k + 1, m)

\* The loop of is_fuzzy_match from the k-th character of sfind on, n being the
\* index of the previous hit.
RECURSIVE fuzzy_scan(_, _, _, _)
fuzzy_scan(stext, sfind, k, n) ==
    IF k > Len(sfind) THEN TRUE
    ELSE LET m == find(stext, sfind[k], n + 1)
         IN  IF m < 0 THEN FALSE ELSE fuzzy_scan(stext, sfind, k + 1, m)

is_fuzzy_match(stext, sfind) == fuzzy_scan(upper(stext), upper(sfind), 1, -1)

\* re.findall('.[^A-Z]*', s) from position p on: a match starts at every
\* character that is not a newline and runs up to the next A-Z.
not_AZ == [ c \in Chars |-> ~is_AZ[c] ]

RECURSIVE case_words_from(_, _)
case_words_from(s, p) ==
    IF p > Len(s) THEN << >>
    ELSE IF s[p] = "\n" THEN case_words_from(s, p + 1)
    ELSE LET e == run_end(s, p + 1, not_AZ)
         IN  << SubSeq(s, p, e) >> \o case_words_from(s, e + 1)

case_words(s) == case_words_from(s, 1)

\* Mutant of case_split_match: the segment counts must be equal (== for <=).
case_split_match_same_count(s, begin) ==
    /\ s[1] = begin[1]
    /\ LET searchwords == case_words(begin)
           wordwords == case_words(s)
       IN  /\ Len(searchwords) = Len(wordwords)
           /\ \A i \in 1..Len(searchwords) : startswith(wordwords[i], searchwords[i])

\* The case-split branch of is_text_with_begin: TRUE where it returns True.
case_split_match(s, begin) ==
    /\ s[1] = begin[1]
    /\ LET searchwords == case_words(begin)
           wordwords == case_words(s)
           swl == Len(searchwords)
           wwl == Len(wordwords)
       IN  /\ swl <= wwl
           /\ \A i \in 1..swl : startswith(wordwords[i], searchwords[i])

\* Mutant of plain_first: the list is left as it is.
plain_first_as_is(words, word1) == [ i \in 1..Len(words) |-> i ]

\* words_plain + words_fuzzy (acp_words_plain + acp_words_fuzzy) as the
\* positions in words: those of the words that pass is_plain_match, then the
\* others, each group in the order of words.
plain_first(words, word1) ==
    SelectSeq([ i \in 1..Len(words) |-> i ], LAMBDA i : is_plain_match(words[i], word1))
        \o SelectSeq([ i \in 1..Len(words) |-> i ],
                     LAMBDA i : ~is_plain_match(words[i], word1))

\* re.findall('[^_]+', ss) from position p on.
not_underscore == [ c \in Chars |-> c # "_" ]

RECURSIVE underscore_words_from(_, _)
underscore_words_from(ss, p) ==
    IF p > Len(ss) THEN << >>
    ELSE IF ss[p] = "_" THEN underscore_words_from(ss, p + 1)
    ELSE LET e == run_end(ss, p, not_underscore)
         IN  << SubSeq(ss, p, e) >> \o underscore_words_from(ss, e + 1)

underscore_words(ss) == underscore_words_from(ss, 1)

\* "first chars of each word": the for/else over range(bl).
initials_match(begin, wordwords) ==
    /\ Len(begin) <= Len(wordwords)
    /\ \A i \in 1..Len(begin) : begin[i] = wordwords[i][1]

\* The loop that computes common_len in spl_match.
spl_common_len(begin, word) ==
    CHOOSE c \in 0..min(Len(begin), Len(word)) :
        /\ \A k \in 1..c : begin[k] = word[k]
        /\ c = min(Len(begin), Len(word)) \/ begin[c + 1] # word[c + 1]

\* Mutant of spl_range: only the greedy split is tried.
spl_range_greedy(common_len) == { 0 }

\* Mutant of spl_range: the loop runs over 1..common_len.
spl_range_from_one(common_len) == 1..common_len

\* range(common_len), the values of i the loop of spl_match runs through.
spl_range(common_len) == 0..(common_len - 1)

\* begin[common_len-i:], the argument of the recursive call.
spl_rest(begin, common_len, i) == slice_from(begin, common_len - i)

\* Mutant of spl_match: the calls it makes look at one segment only.
spl_match_one_level(begin, words) ==
    LET common_len == spl_common_len(begin, words[1])
    IN  common_len > 0 /\ Len(begin) = common_len

RECURSIVE spl_match(_, _)
spl_match(begin, words) ==
    LET word == words[1]
        common_len == spl_common_len(begin, word)
    IN  IF common_len > 0
        THEN IF Len(begin) = common_len THEN TRUE
             ELSE IF Len(words) = 1 THEN FALSE
             ELSE \E i \in spl_range(common_len) :
                      spl_match(spl_rest(begin, common_len, i), Tail(words))
        ELSE FALSE

\* Mutant of underscore_split_match: only the candidate is lower-cased.
underscore_split_match_keep_begin(s, begin) ==
    LET ss0 == strip(s, "_")
    IN  /\ \E k \in 1..Len(ss0) : ss0[k] = "_"
        /\ LET ss == IF ~option_case_sens THEN lower(ss0) ELSE ss0
               wordwords == underscore_words(ss)
           IN  \/ initials_match(begin, wordwords)
               \/ spl_match(begin, wordwords)

\* Mutant of underscore_split_match: the test  '_' in ss  is left out.
underscore_split_match_any(s, begin) ==
    LET ss0 == strip(s, "_")
        begin1 == IF ~option_case_sens THEN lower(begin) ELSE begin
        ss == IF ~option_case_sens THEN lower(ss0) ELSE ss0
        wordwords == underscore_words(ss)
    IN  /\ wordwords # << >>
        /\ \/ initials_match(begin1, wordwords)
           \/ spl_match(begin1, wordwords)

\* The underscore-split branch of is_text_with_begin: TRUE where it returns True.
underscore_split_match(s, begin) ==
    LET ss0 == strip(s, "_")
    IN  /\ \E k \in 1..Len(ss0) : ss0[k] = "_"
        /\ LET begin1 == IF ~option_case_sens THEN lower(begin) ELSE begin
               ss == IF ~option_case_sens THEN lower(ss0) ELSE ss0
               wordwords == underscore_words(ss)
           IN  \/ initials_match(begin1, wordwords)
               \/ spl_match(begin1, wordwords)

\* Mutant of plain_fallback: the case rule is not looked at.
plain_fallback_case_sens(s, begin) == startswith(s, begin)

\* The last four lines of is_text_with_begin.
plain_fallback(s, begin) ==
    IF option_case_sens
    THEN startswith(s, begin)
    ELSE startswith(upper(s), upper(begin))

\* Mutant of is_text_with_begin: fuzzy is consulted only when no split option
\* is set.
is_text_with_begin_split_first(s, begin) ==
    IF option_fuzzy /\ ~option_case_split /\ ~option_underscore_split
    THEN is_fuzzy_match(s, begin)
    ELSE \/ option_case_split /\ case_split_match(s, begin)
         \/ option_underscore_split /\ underscore_split_match(s, begin)
         \/ plain_fallback(s, begin)

is_text_with_begin(s, begin) ==
    IF option_fuzzy THEN is_fuzzy_match(s, begin)
    ELSE \/ /\ option_case_split \/ option_underscore_split
            /\ \/ option_case_split /\ case_split_match(s, begin)
               \/ option_underscore_split /\ underscore_split_match(s, begin)
         \/ plain_fallback(s, begin)

(***************************************************************************)
(* The host: open tabs, dictionary files, the 'nonword_chars' option       *)
(***************************************************************************)

acp_ext == << ".", "a", "c", "p" >>

\* NONWORDS_DEFAULT, without space/tab.
NONWORDS_DEFAULT ==
    << "-", "+", "*", "=", "/", "\\", "(", ")", "[", "]", "{", "}", "<", ">", "\"",
       "'", ".", ",", ":", ";", "~", "?", "!", "@", "#", "$", "%", "^", "&", "|",
       "grave", "ellipsis" >>

ini == << "i", "n", "i" >>
php == << "p", "h", "p" >>
md == << "m", "d" >>

\* The open tabs (ed_handles), each with its lines, its lexer
\* (PROP_LEXER_FILE: << >> for None, else << name >>), the lexer at the caret
\* and the tab title.  In the third tab the caret is in a part of the text
\* that has another lexer, one without a dictionary.
editors ==
    << [ lines |-> << << "p", "l", " ", "p", "l", "e", "a", "s", "e", " ",
                         "p", "l", "e", "n", "t", "y" >>,
                      << "p", "q", " ", "9", "p", " ", "$", "p", "l", "a", " ",
                         "p", "_", "l", " ", "P", "l", " ", "P", "l", "y" >> >>,
         lexer_file |-> << ini >>, lexer_caret |-> ini,
         title |-> << "a", "|", "b" >> ],
       [ lines |-> << << "p", "a", "l", " ", "p", "_", "l", "_", "x", " ",
                         "$", "p", "l", "a" >>,
                      << "p", "l", "e", "n", "t", "y" >> >>,
         lexer_file |-> << php >>, lexer_caret |-> php,
         title |-> << "t", "2" >> ],
       [ lines |-> << << "p", "l", "u", "m" >>, << >>, << "p", "l" >> >>,
         lexer_file |-> << ini >>, lexer_caret |-> md,
         title |-> << "c" >> ] >>

\* The files of the autocomplete directory: ini.acp and ini_.acp, and
\* php_.acp (the fallback name) without a php.acp, each as readlines() gives
\* it.
acp_files ==
    (ini \o acp_ext :>
        << << "#", "c", "h", "a", "r", "s", " ", ".", "\n" >>,
           << "^", " ", "p", "x", "l", "|", "f", "z", "\n" >>,
           << "v", " ", "p", "a", "l", "\n" >>,
           << "^", " ", "p", "l", "e", "n", "t", "y", "(", "x", ")", "|", "m", "\n" >>,
           << "\n" >>,
           << "b", "a", "d", "\n" >>,
           << "v", " ", "p", "l", "%", "2", "0", "b", "\n" >>,
           << "^", " ", "p", "l", "\n" >> >>)
    @@ (ini \o << "_" >> \o acp_ext :>
        << << "x", " ", "p", "l", "o", "t", "\n" >> >>)
    @@ (php \o << "_" >> \o acp_ext :>
        << << "f", " ", "p", "a", "l", "\n" >> >>)

\* The 'nonword_chars' option: php keeps '$' inside words, the other lexers
\* have the default.
nonword_chars == php :> SelectSeq(NONWORDS_DEFAULT, LAMBDA ch : ch # "$")

(***************************************************************************)
(* Word under the caret, scan pattern, scanner                             *)
(***************************************************************************)

\* needle in hay, for strings.
contains(hay, needle) ==
    \E i \in 0..(Len(hay) - Len(needle)) : SubSeq(hay, i + 1, i + Len(needle)) = needle

\* ch in s, for one character.
char_in(ch, s) == \E i \in 1..Len(s) : s[i] = ch

\* Mutant of is_lexer_allowed: the name looked up is always '-'.
is_lexer_allowed_dash(lex) ==
    \/ contains(<< "," >> \o option_lexers \o << "," >>, << ",", "*", "," >>)
    \/ contains(<< "," >> \o lower(option_lexers) \o << "," >>, << ",", "-", "," >>)

is_lexer_allowed(lex) ==
    \/ contains(<< "," >> \o option_lexers \o << "," >>, << ",", "*", "," >>)
    \/ contains(<< "," >> \o lower(option_lexers) \o << "," >>,
                << "," >> \o lower(IF lex = << >> THEN << "-" >> ELSE lex) \o << "," >>)

\* isword; nonwords_ is the global nonwords as it stands at the call.
isword(ch, nonwords_) == ~char_in(ch, << " ", "\t" >> \o nonwords_)

\* Mutant of get_word: column 0 is let through (0<=x for 0<x).
get_word_from_zero(lines, x, y, nonwords_) ==
    IF ~(0 <= y /\ y < Len(lines)) THEN << >>
    ELSE LET s == lines[y + 1]
         IN  IF ~(0 <= x /\ x <= Len(s)) THEN << >>
             ELSE LET left == CHOOSE x0 \in 0..x :
                                  /\ \A k \in (x0 + 1)..x : isword(s[k], nonwords_)
                                  /\ x0 = 0 \/ ~isword(s[x0], nonwords_)
                      right == CHOOSE x1 \in x..Len(s) :
                                   /\ \A k \in (x + 1)..x1 : isword(s[k], nonwords_)
                                   /\ x1 = Len(s) \/ ~isword(s[x1 + 1], nonwords_)
                  IN  << << SubSeq(s, left + 1, x), SubSeq(s, x + 1, right) >> >>

\* get_word on the lines of an editor: << >> for None, << <<text1, text2>> >>
\* for the pair.
get_word(lines, x, y, nonwords_) ==
    IF ~(0 <= y /\ y < Len(lines)) THEN << >>
    ELSE LET s == lines[y + 1]
         IN  IF ~(0 < x /\ x <= Len(s)) THEN << >>
             ELSE LET left == CHOOSE x0 \in 0..x :
                                  /\ \A k \in (x0 + 1)..x : isword(s[k], nonwords_)
                                  /\ x0 = 0 \/ ~isword(s[x0], nonwords_)
                      right == CHOOSE x1 \in x..Len(s) :
                                   /\ \A k \in (x + 1)..x1 : isword(s[k], nonwords_)
                                   /\ x1 = Len(s) \/ ~isword(s[x1 + 1], nonwords_)
                  IN  << << SubSeq(s, left + 1, x), SubSeq(s, x + 1, right) >> >>

\* escape_regex(s)
RECURSIVE escape_regex(_)
escape_regex(s) ==
    IF s = << >> THEN << >>
    ELSE (IF char_in(Head(s), << "$", "^", "#", "-", "+", "|", ".", "?", "*",
                                 "(", ")", "[", "]", "{", "}" >>)
          THEN << "\\", Head(s) >> ELSE << Head(s) >>) \o escape_regex(Tail(s))

\* What follows r'\w' in w_content: escape_regex(ch) for every ch of
\* NONWORDS_DEFAULT that is not in nonwords, in the order of NONWORDS_DEFAULT.
RECURSIVE w_content_from(_, _)
w_content_from(chars, nonwords_) ==
    IF chars = << >> THEN << >>
    ELSE (IF char_in(Head(chars), nonwords_) THEN << >>
          ELSE escape_regex(<< Head(chars) >>))
             \o w_content_from(Tail(chars), nonwords_)

\* The characters the regex engine reads out of the text between '[\w' and
\* ']': a backslash makes the character after it a literal (none of them is a
\* letter or a digit), any other character stands for itself.
RECURSIVE class_literals(_)
class_literals(body) ==
    IF body = << >> THEN {}
    ELSE IF Head(body) = "\\"
    THEN IF Len(body) = 1 THEN {}
         ELSE { body[2] } \cup class_literals(SubSeq(body, 3, Len(body)))
    ELSE { Head(body) } \cup class_literals(Tail(body))

\* The text between '[\w' and ']' ends in a backslash that escapes nothing
\* but the ']': the class is not closed and re.findall raises re.error.
RECURSIVE class_unterminated(_)
class_unterminated(body) ==
    IF body = << >> THEN FALSE
    ELSE IF Head(body) = "\\"
    THEN Len(body) = 1 \/ class_unterminated(SubSeq(body, 3, Len(body)))
    ELSE class_unterminated(Tail(body))

\* Mutant of get_repeats: the floor of a two-character begin.
get_repeats_short(begin) == max(1, option_min_len - Len(begin) - 1)

\* repeats = max(1, option_min_len-len(begin))
get_repeats(begin) == max(1, option_min_len - Len(begin))

\* get_regex: the pattern \$?\b<begin>[\w<w_content>]{repeats,} as its parts.
\* in_class is the set of characters the class [\w<w_content>] accepts, valid
\* tells whether the pattern compiles.  begin is one character and not a
\* backslash.
get_regex(begin, nonwords_) ==
    Only({ [ begin |-> begin,
             w_content |-> w_content,
             in_class |-> { c \in Chars : is_w[c] } \cup class_literals(w_content),
             valid |-> ~class_unterminated(w_content),
             repeats |-> get_repeats(begin) ] :
           w_content \in { w_content_from(NONWORDS_DEFAULT, nonwords_) } })

\* The end (1-based, inclusive) of the longest run of characters of the set
\* class that starts at position p; p - 1 when s[p] is not in it.
RECURSIVE class_run_end(_, _, _)
class_run_end(s, p, class) ==
    IF p <= Len(s) /\ s[p] \in class THEN class_run_end(s, p + 1, class) ELSE p - 1

\* Mutant of literal_matches: re.I is always set.
literal_matches_ignore_case(lit, c) == char_lower[lit] = char_lower[c]

\* A literal of the pattern against a character of the text, under re.I when
\* case_sens is off.
literal_matches(lit, c) ==
    IF option_case_sens THEN lit = c ELSE char_lower[lit] = char_lower[c]

\* \b between positions p - 1 and p of text.
word_boundary(text, p) ==
    LET before == p - 1 >= 1 /\ p - 1 <= Len(text) /\ is_w[text[p - 1]]
        after == p >= 1 /\ p <= Len(text) /\ is_w[text[p]]
    IN  before # after

\* The pattern tried with its literal at position q: the end of the match, or
\* 0 when there is none.
match_literal_at(regex, text, q) ==
    IF /\ q <= Len(text)
       /\ word_boundary(text, q)
       /\ literal_matches(regex.begin[1], text[q])
    THEN LET e == class_run_end(text, q + 1, regex.in_class)
         IN  IF e - q >= regex.repeats THEN e ELSE 0
    ELSE 0

\* The pattern tried at position p: \$? takes a '$' first and gives it back
\* when the rest does not match.  The end of the match, or 0.
match_at(regex, text, p) ==
    LET with_sigil == IF text[p] = "$" THEN match_literal_at(regex, text, p + 1) ELSE 0
    IN  IF with_sigil > 0 THEN with_sigil ELSE match_literal_at(regex, text, p)

\* re.findall(regex, text, flags) from position p on.
RECURSIVE findall_from(_, _, _)
findall_from(regex, text, p) ==
    IF p > Len(text) THEN << >>
    ELSE Only({ IF e > 0
                THEN << SubSeq(text, p, e) >> \o findall_from(regex, text, e + 1)
                ELSE findall_from(regex, text, p + 1) :
                e \in { match_at(regex, text, p) } })

\* '\n'.join(lines)
RECURSIVE join_lines(_)
join_lines(lines) ==
    IF lines = << >> THEN << >>
    ELSE IF Len(lines) = 1 THEN lines[1]
    ELSE lines[1] \o << "\n" >> \o join_lines(Tail(lines))

\* ed.get_text_all()
get_text_all(ed) == join_lines(ed.lines)

\* Mutant of get_words_list: a document at the cap is skipped too (>= for >).
get_words_list_cap_inclusive(ed, regex) ==
    IF Len(ed.lines) >= option_max_lines THEN {}
    ELSE UNION { { l[i] : i \in 1..Len(l) } :
                     l \in { findall_from(regex, get_text_all(ed), 1) } }

\* get_words_list: the distinct matches, as a set (the list is made from a
\* set and is sorted by the caller).
get_words_list(ed, regex) ==
    IF Len(ed.lines) > option_max_lines THEN {}
    ELSE UNION { { l[i] : i \in 1..Len(l) } :
                     l \in { findall_from(regex, get_text_all(ed), 1) } }

\* get_words_list raises re.error: the document is within the cap, so that
\* re.findall is reached, and the pattern does not compile.
get_words_list_raises(ed, regex) ==
    Len(ed.lines) <= option_max_lines /\ ~regex.valid

\* get_editors: the indices of the tabs to scan, in handle order.
\* Mutant of get_editors: the lexer of a tab is not compared.
get_editors_any_lexer(ed, lexer) ==
    IF option_what_editors = 0 THEN << ed >>
    ELSE [ h \in 1..Len(editors) |-> h ]

get_editors(ed, lexer) ==
    IF option_what_editors = 0 THEN << ed >>
    ELSE IF option_what_editors = 1 THEN [ h \in 1..Len(editors) |-> h ]
    ELSE SelectSeq([ h \in 1..Len(editors) |-> h ],
                   LAMBDA h : editors[h].lexer_file = lexer)

(***************************************************************************)
(* The .acp dictionary                                                     *)
(***************************************************************************)

not_space == [ c \in Chars |-> ~is_space[c] ]
acp_word_class == [ c \in Chars |-> c \notin { "(", "|", " " } ]
not_bar == [ c \in Chars |-> c # "|" ]

\* str.rstrip() without argument: trailing whitespace removed.
RECURSIVE rstrip_space(_)
rstrip_space(s) ==
    IF s # << >> /\ is_space[s[Len(s)]]
    THEN rstrip_space(SubSeq(s, 1, Len(s) - 1))
    ELSE s

\* word.replace('%20', ' ')
RECURSIVE replace_pct20(_)
replace_pct20(s) ==
    IF Len(s) >= 3 /\ SubSeq(s, 1, 3) = << "%", "2", "0" >>
    THEN << " " >> \o replace_pct20(SubSeq(s, 4, Len(s)))
    ELSE IF s = << >> THEN << >>
    ELSE << Head(s) >> \o replace_pct20(Tail(s))

\* re.match('^([^\s]+)\s([^(| ]+)([^|]*)\|?(.*)?$', line) and the four groups,
\* group 2 right-stripped: << >> when the line does not match.
match_acp_line(line) ==
    LET pre_end == run_end(line, 1, not_space)
        word_end == run_end(line, pre_end + 2, acp_word_class)
        args_end == run_end(line, word_end + 1, not_bar)
    IN  IF pre_end < 1 \/ pre_end >= Len(line) \/ word_end < pre_end + 2
        THEN << >>
        ELSE << [ pre |-> SubSeq(line, 1, pre_end),
                  word |-> rstrip_space(SubSeq(line, pre_end + 2, word_end)),
                  args |-> SubSeq(line, word_end + 1, args_end),
                  descr |-> SubSeq(line, args_end + 2, Len(line)) ] >>

\* The body of the loop over acp_lines for one line: << >> when the line is
\* skipped, else the entry with the word as it is emitted.
acp_entry(line0, word1, target_word) ==
    Only({ IF m = << >> THEN << >>
           ELSE IF Len(m[1].word) < option_min_len THEN << >>
           ELSE IF /\ is_text_with_begin(m[1].word, word1)
                   /\ m[1].word # word1
                   /\ m[1].word # target_word
           THEN << [ m[1] EXCEPT !.word = replace_pct20(m[1].word) ] >>
           ELSE << >> :
           m \in { IF rstrip_space(line0) = << >> THEN << >>
                   ELSE match_acp_line(rstrip_space(line0)) } })

RECURSIVE acp_entries(_, _, _)
acp_entries(acp_lines, word1, target_word) ==
    IF acp_lines = << >> THEN << >>
    ELSE acp_entry(Head(acp_lines), word1, target_word)
             \o acp_entries(Tail(acp_lines), word1, target_word)

\* fstr.format(pre, word, args, descr)
acp_format(e) == e.pre \o << "|" >> \o e.word \o << "|" >> \o e.args \o << "\t" >> \o e.descr

\* The lists get_acp_words returns, from the entries the loop kept (all, in
\* file order).  acp_words: the emitted strings, plain matches first; entries:
\* the entries in the order of acp_words; words: the set of emitted words.
acp_result(sfile, all, word1) ==
    Only({ [ files |-> << sfile >>,
             acp_words |-> [ i \in 1..Len(entries) |-> acp_format(entries[i]) ],
             entries |-> entries,
             words |-> { all[i].word : i \in 1..Len(all) } ] :
           entries \in { [ k \in 1..Len(all) |->
                             all[plain_first([ i \in 1..Len(all) |-> all[i].word ],
                                             word1)[k]] ] } })

\* get_acp_words from the lines of the file on: lines0 is what
\* _read_acp_file(sfile) returned.
acp_parse(sfile, lines0, word1, word2) ==
    LET acp_lines ==
            IF /\ Len(lines0) > 0
               /\ startswith(lines0[1], << "#", "c", "h", "a", "r", "s" >>)
            THEN Tail(lines0) ELSE lines0
    IN  Only({ acp_result(sfile, all, word1) :
               all \in { acp_entries(acp_lines, word1, word1 \o word2) } })

\* Mutant of get_acp_words: the fallback name is looked up first.
get_acp_words_fallback_first(lex, word1, word2) ==
    LET sfile1 == lex \o acp_ext
        sfile2 == lex \o << "_" >> \o acp_ext
        sfile == IF sfile2 \in DOMAIN acp_files THEN << sfile2 >>
                 ELSE IF sfile1 \in DOMAIN acp_files THEN << sfile1 >>
                 ELSE << >>
    IN  IF sfile = << >>
        THEN [ files |-> << >>, acp_words |-> << >>, entries |-> << >>, words |-> {} ]
        ELSE acp_parse(sfile[1], acp_files[sfile[1]], word1, word2)

\* get_acp_words for the lexer at the caret; files: the files read.
get_acp_words(lex, word1, word2) ==
    LET sfile1 == lex \o acp_ext
        sfile2 == lex \o << "_" >> \o acp_ext
        sfile == IF sfile1 \in DOMAIN acp_files THEN << sfile1 >>
                 ELSE IF sfile2 \in DOMAIN acp_files THEN << sfile2 >>
                 ELSE << >>
    IN  IF sfile = << >>
        THEN [ files |-> << >>, acp_words |-> << >>, entries |-> << >>, words |-> {} ]
        ELSE acp_parse(sfile[1], acp_files[sfile[1]], word1, word2)

(***************************************************************************)
(* get_completions and Command.on_complete                                 *)
(***************************************************************************)

\* a < b in the order sorted() puts strings: by code point, a proper prefix
\* first.
RECURSIVE str_less(_, _)
str_less(a, b) ==
    IF b = << >> THEN FALSE
    ELSE IF a = << >> THEN TRUE
    ELSE IF Head(a) # Head(b) THEN ord[Head(a)] < ord[Head(b)]
    ELSE str_less(Tail(a), Tail(b))

\* Mutant of sorted: the greatest string first.
RECURSIVE sorted_descending(_)
sorted_descending(S) ==
    IF S = {} THEN << >>
    ELSE Only({ << greatest >> \o sorted_descending(S \ { greatest }) :
                greatest \in { w \in S : \A v \in S \ { w } : str_less(v, w) } })

\* sorted(list(set(words)))
RECURSIVE sorted(_)
sorted(S) ==
    IF S = {} THEN << >>
    ELSE Only({ << least >> \o sorted(S \ { least }) :
                least \in { w \in S : \A v \in S \ { w } : str_less(w, v) } })

\* s.replace('|', '/')
replace_bar(s) == [ i \in 1..Len(s) |-> IF s[i] = "|" THEN "/" ELSE s[i] ]

\* '; '.join(titles)
RECURSIVE join_titles(_)
join_titles(titles) ==
    IF titles = << >> THEN << >>
    ELSE IF Len(titles) = 1 THEN titles[1]
    ELSE titles[1] \o << ";", " " >> \o join_titles(Tail(titles))

\* Mutant of get_prefix: every word is 'text'.
get_prefix_text(w) == << "t", "e", "x", "t" >>

get_prefix(w) ==
    IF startswith(w, << "$" >>) THEN << "v", "a", "r" >> ELSE << "t", "e", "x", "t" >>

\* search_tab(w): eds are the scanned tabs, words_by_tabs their token sets.
search_tab(w, eds, words_by_tabs) ==
    IF option_what_editors \in { 1, 2 }
    THEN LET tabs_found == SelectSeq([ i \in 1..Len(eds) |-> i ],
                                     LAMBDA i : w \in words_by_tabs[i])
         IN  IF tabs_found # << >>
             THEN << "|" >> \o join_titles([ k \in 1..Len(tabs_found) |->
                                   replace_bar(editors[eds[tabs_found[k]]].title) ])
             ELSE << >>
    ELSE << >>

\* What get_completions leaves behind when it returns None.
NoResult(nonwords_) ==
    [ value |-> [ kind |-> "None" ], nonwords |-> nonwords_, scanned |-> {},
      acp_read |-> << >> ]

\* Mutant of keep_word: words of the dictionary are not left out.
keep_word_with_acp(w, acp_set, word1, word1and2) == w # word1 /\ w # word1and2

\* The condition of the first filter of get_completions.
keep_word(w, acp_set, word1, word1and2) ==
    w \notin acp_set /\ w # word1 /\ w # word1and2

\* The end of get_completions, from the filtering of words on: eds are the
\* scanned tabs, words_by_tabs their token sets, words0 the sorted tokens, acp
\* what get_acp_words returned.
filter_and_rank(eds, words_by_tabs, words0, acp, word1, word2) ==
    LET word1and2 == word1 \o word2
        words1 == SelectSeq(words0, LAMBDA w :
                      keep_word(w, acp.words, word1, word1and2))
        words2 == SelectSeq(words1, LAMBDA w : is_text_with_begin(w, word1))
    IN  Only({ [ kind |-> "tuple",
                 words_decorated |->
                     [ i \in 1..Len(words) |->
                         get_prefix(words[i]) \o << "|" >> \o words[i]
                             \o search_tab(words[i], eds, words_by_tabs) ],
                 acp_words |-> acp.acp_words,
                 word1 |-> word1, word2 |-> word2,
                 words |-> words,
                 acp_entries |-> acp.entries,
                 acp_set |-> acp.words ] :
               words \in { [ k \in 1..Len(words2) |->
                               words2[plain_first(words2, word1)[k]] ] } })

\* Mutant of merge_words: a document without tokens empties the result.
merge_words_all_or_nothing(words_by_tabs) ==
    IF \E i \in 1..Len(words_by_tabs) : words_by_tabs[i] = {} THEN {}
    ELSE UNION { words_by_tabs[i] : i \in 1..Len(words_by_tabs) }

\* words: the token lists of the scanned documents, put together.
merge_words(words_by_tabs) ==
    UNION { words_by_tabs[i] : i \in 1..Len(words_by_tabs) }

\* get_completions from the scan on, for the word under the caret.
scan_and_merge(ed, lexw, nonwords_, word1, word2, with_acp) ==
    Only({ IF \E i \in 1..Len(eds) : get_words_list_raises(editors[eds[i]], regex)
           THEN [ value |-> [ kind |-> "raise" ], nonwords |-> nonwords_,
                  scanned |-> { eds[i] : i \in 1..Len(eds) }, acp_read |-> << >> ]
           ELSE
           Only({ IF words = {} /\ acp.acp_words = << >>
                  THEN [ value |-> [ kind |-> "None" ], nonwords |-> nonwords_,
                         scanned |-> { eds[i] : i \in 1..Len(eds) },
                         acp_read |-> acp.files ]
                  ELSE [ value |-> filter_and_rank(eds, words_by_tabs, sorted(words),
                                                   acp, word1, word2),
                         nonwords |-> nonwords_,
                         scanned |-> { eds[i] : i \in 1..Len(eds) },
                         acp_read |-> acp.files ] :
                  words_by_tabs \in
                      { [ i \in 1..Len(eds) |->
                            get_words_list(editors[eds[i]], regex) ] },
                  words \in
                      { merge_words([ i \in 1..Len(eds) |->
                                        get_words_list(editors[eds[i]], regex) ]) },
                  acp \in { IF with_acp
                            THEN get_acp_words(editors[ed].lexer_caret, word1, word2)
                            ELSE [ files |-> << >>, acp_words |-> << >>,
                                   entries |-> << >>, words |-> {} ] } }) :
           eds \in { get_editors(ed, lexw) },
           regex \in { get_regex(<< word1[1] >>, nonwords_) } })

\* Mutant of nonwords_assigned: the option is read only while the global is
\* still empty.
nonwords_assigned_once(nonwords0, lex) ==
    IF nonwords0 # << >> THEN nonwords0
    ELSE IF lex \in DOMAIN nonword_chars THEN nonword_chars[lex]
    ELSE NONWORDS_DEFAULT

\* The global nonwords after  nonwords = appx.get_opt('nonword_chars', ...)
\* for the lexer lex; nonwords0 is what it held before.
nonwords_assigned(nonwords0, lex) ==
    IF lex \in DOMAIN nonword_chars THEN nonword_chars[lex] ELSE NONWORDS_DEFAULT

\* get_completions(ed_self, x0, y0, with_acp, ignore_lexer) for the tab ed,
\* entered while the global nonwords holds nonwords0.
\* value: what it returns, with the undecorated list words, the dictionary
\* entries and acp_set beside the returned tuple; nonwords: the global as it
\* leaves it; scanned: the tabs given to get_words_list; acp_read: the
\* dictionary files read.
get_completions_from(nonwords0, ed, x0, y0, with_acp, ignore_lexer) ==
    LET lexw == editors[ed].lexer_file
    IN  IF lexw = << >> THEN NoResult(nonwords0)
        ELSE IF ~ignore_lexer /\ ~is_lexer_allowed(lexw[1]) THEN NoResult(nonwords0)
        ELSE
        Only({ IF word = << >> THEN NoResult(nonwords_)
               ELSE IF word[1][1] = << >> THEN NoResult(nonwords_)
               ELSE IF isdigit[word[1][1][1]] THEN NoResult(nonwords_)
               ELSE scan_and_merge(ed, lexw, nonwords_, word[1][1], word[1][2], with_acp) :
               nonwords_ \in { nonwords_assigned(nonwords0, lexw[1]) },
               word \in { get_word(editors[ed].lines, x0, y0,
                                   nonwords_assigned(nonwords0, lexw[1])) } })

\* get_completions entered in the current state.
get_completions(ed, x0, y0, with_acp, ignore_lexer) ==
    get_completions_from(nonwords, ed, x0, y0, with_acp, ignore_lexer)

UnchangedOptions ==
    UNCHANGED << option_lexers, option_min_len, option_case_sens, option_what_editors,
                 option_max_lines, option_use_acp, option_show_acp_first,
                 option_case_split, option_underscore_split, option_fuzzy >>

\* get_completions called directly (it is the module's function behind the
\* command), at the first caret of the focused tab.
GetCompletions(with_acp, ignore_lexer) ==
    /\ carets # << >>
    /\ request' = [ fn |-> "get_completions", with_acp |-> with_acp,
                    ignore_lexer |-> ignore_lexer ]
    /\ \E r \in { get_completions(ed_self, carets[1][1], carets[1][2], with_acp,
                                   ignore_lexer) } :
           /\ res' = r.value
           /\ nonwords' = r.nonwords
           /\ scanned' = r.scanned
           /\ acp_read' = r.acp_read
    /\ completed' = [ kind |-> "none" ]
    /\ UnchangedOptions
    /\ UNCHANGED << ed_self, carets, call, ret, spl >>

\* Mutant of carets_rejected: a selection is let through.
carets_rejected_multi_only(cs) == Len(cs) # 1

\* The two early returns of on_complete: more than one caret, or a selection.
carets_rejected(cs) == Len(cs) # 1 \/ cs[1][4] >= 0

\* Mutant of word_list_of: the buffer candidates always come first.
word_list_words_first(words, acp_words) == words \o acp_words

\* word_list = acp_words+words if option_show_acp_first else words+acp_words
word_list_of(words, acp_words) ==
    IF option_show_acp_first THEN acp_words \o words ELSE words \o acp_words

\* Command.on_complete(ed_self)
OnComplete ==
    /\ request' = [ fn |-> "on_complete", with_acp |-> option_use_acp,
                    ignore_lexer |-> FALSE ]
    /\ IF carets_rejected(carets)
       THEN /\ res' = [ kind |-> "not called" ]
            /\ completed' = [ kind |-> "none" ]
            /\ scanned' = {}
            /\ acp_read' = << >>
            /\ UNCHANGED nonwords
       ELSE \E r \in { get_completions(ed_self, carets[1][1], carets[1][2],
                                        option_use_acp, FALSE) } :
            LET v == r.value
                word_list == word_list_of(v.words_decorated, v.acp_words)
            IN  /\ res' = v
                /\ nonwords' = r.nonwords
                /\ scanned' = r.scanned
                /\ acp_read' = r.acp_read
                /\ completed' =
                       IF v.kind # "tuple" THEN [ kind |-> "none" ]
                       ELSE [ kind |-> "complete",
                              word_list |-> word_list,
                              text |-> join_lines(word_list),
                              len1 |-> Len(v.word1), len2 |-> Len(v.word2) ]
    /\ UnchangedOptions
    /\ UNCHANGED << ed_self, carets, call, ret, spl >>

(***************************************************************************)
(* Values the variables of one group hold while another group is modelled  *)
(***************************************************************************)

\* ','-joined lexer names of the ini default: '-' and a short list.
DefaultLexers == << "-", ",", "i", "n", "i" >>

\* The option globals as the ini defaults give them.
DefaultOptions ==
    /\ option_lexers = DefaultLexers
    /\ option_min_len = 3
    /\ option_case_sens = TRUE
    /\ option_what_editors = 0
    /\ option_max_lines = 10000
    /\ option_use_acp = TRUE
    /\ option_show_acp_first = FALSE
    /\ option_case_split = FALSE
    /\ option_underscore_split = FALSE
    /\ option_fuzzy = TRUE

\* No tab is open and no request has been made.
NoHost ==
    /\ nonwords = << >>
    /\ ed_self = 0
    /\ carets = << >>
    /\ request = [ fn |-> "none" ]
    /\ res = [ kind |-> "idle" ]
    /\ completed = [ kind |-> "idle" ]
    /\ scanned = {}
    /\ acp_read = << >>

NoCall == call = [ stext |-> << >>, sfind |-> << >> ] /\ ret = [ fn |-> "none" ]

NoSpl == spl = [ pc |-> "idle" ]

StrsUpTo(A, n) == UNION { [ 1..k -> A ] : k \in 0..n }

(***************************************************************************)
(* The matching functions called directly                                  *)
(***************************************************************************)

MaxText == 3
MaxFind == 2

MatchAlphabet == { "p", "P", "l", "_" }
FindAlphabet == { "p", "P", "l" }

FooBarBaz == << "F", "o", "o", "B", "a", "r", "B", "a", "z" >>
PropLexerFile == << "P", "r", "o", "p", "L", "e", "x", "e", "r", "F", "i", "l", "e" >>
prop_lexer_file ==
    << "p", "r", "o", "p", "_", "l", "e", "x", "e", "r", "_", "f", "i", "l", "e" >>
other_te_thing ==
    << "o", "t", "h", "e", "r", "_", "t", "e", "_", "t", "h", "i", "n", "g" >>

ExamplePairs ==
    { << FooBarBaz, << "f", "b", "b" >> >>,
      << FooBarBaz, << "f", "b", "x" >> >>,
      << PropLexerFile, << "P", "L", "F" >> >>,
      << PropLexerFile, << "P", "X", "F" >> >>,
      << PropLexerFile, << "P", "r", "L", "e", "F" >> >>,
      << prop_lexer_file, << "p", "l", "f" >> >>,
      << prop_lexer_file, << "P", "L", "F" >> >>,
      << prop_lexer_file, << "p", "r", "l", "e", "f" >> >>,
      << << "t", "e", "x", "t" >>, << "t", "e" >> >>,
      << other_te_thing, << "t", "e" >> >>,
      << << "_", "p", "_", "l", "_", "_" >>, << "p", "l" >> >>,
      << << "p", "l", "_", "_", "P", "p" >>, << "p", "l", "p" >> >> }

\* Candidates and typed prefixes: both are non-empty where the plugin calls
\* is_text_with_begin (a scanned token, a dictionary word; word1).
MatchPairs ==
    ((StrsUpTo(MatchAlphabet, MaxText) \ { << >> })
        \X (StrsUpTo(FindAlphabet, MaxFind) \ { << >> }))
    \cup ExamplePairs

\* is_fuzzy_match also takes the empty string.
FuzzyPairs ==
    (StrsUpTo(MatchAlphabet, MaxText) \X StrsUpTo(FindAlphabet, MaxFind))
    \cup ExamplePairs

InitFuzzy ==
    /\ DefaultOptions /\ NoHost /\ NoSpl
    /\ \E pr \in FuzzyPairs : call = [ stext |-> pr[1], sfind |-> pr[2] ]
    /\ ret = [ fn |-> "none" ]

InitMatch ==
    /\ option_lexers = DefaultLexers
    /\ option_min_len = 3
    /\ option_what_editors = 0
    /\ option_max_lines = 10000
    /\ option_use_acp = TRUE
    /\ option_show_acp_first = FALSE
    /\ option_case_sens \in BOOLEAN
    /\ option_case_split \in BOOLEAN
    /\ option_underscore_split \in BOOLEAN
    /\ option_fuzzy \in BOOLEAN
    /\ NoHost /\ NoSpl
    /\ \E pr \in MatchPairs : call = [ stext |-> pr[1], sfind |-> pr[2] ]
    /\ ret = [ fn |-> "none" ]

UnchangedButRet ==
    UNCHANGED << option_lexers, option_min_len, option_case_sens, option_what_editors,
                 option_max_lines, option_use_acp, option_show_acp_first,
                 option_case_split, option_underscore_split, option_fuzzy,
                 nonwords, ed_self, carets,
                 request, res, completed, scanned, acp_read, call, spl >>

CallFuzzyMatch ==
    /\ ret' = [ fn |-> "is_fuzzy_match",
                value |-> is_fuzzy_match(call.stext, call.sfind) ]
    /\ UnchangedButRet

CallPlainMatch ==
    /\ ret' = [ fn |-> "is_plain_match",
                value |-> is_plain_match(call.stext, call.sfind) ]
    /\ UnchangedButRet

CallTextWithBegin ==
    /\ ret' = [ fn |-> "is_text_with_begin",
                value |-> is_text_with_begin(call.stext, call.sfind) ]
    /\ UnchangedButRet

NextFuzzy == CallFuzzyMatch

SpecFuzzy == InitFuzzy /\ [][NextFuzzy]_vars

NextMatch == CallTextWithBegin \/ CallPlainMatch

SpecMatch == InitMatch /\ [][NextMatch]_vars

(***************************************************************************)
(* Properties of the matching functions                                    *)
(***************************************************************************)

\* a is a subsequence of b: the characters of a occur in b in order, not
\* necessarily adjacent.
RECURSIVE IsSubsequence(_, _)
IsSubsequence(a, b) ==
    IF a = << >> THEN TRUE
    ELSE IF b = << >> THEN FALSE
    ELSE \/ Head(a) = Head(b) /\ IsSubsequence(Tail(a), Tail(b))
         \/ IsSubsequence(a, Tail(b))

\* The j-th smallest element of a set of numbers.
NthOf(S, j) == CHOOSE x \in S : Cardinality({ y \in S : y <= x }) = j

\* C4: is_fuzzy_match(candidate, prefix) is true exactly when the uppercased
\* prefix is a subsequence of the uppercased candidate; it is true for
\* ("FooBarBaz", "fbb") and false for ("FooBarBaz", "fbx").
C4_FuzzyIsSubsequence ==
    ret.fn = "is_fuzzy_match" =>
        /\ ret.value = IsSubsequence(upper(call.sfind), upper(call.stext))
        /\ call = [ stext |-> FooBarBaz, sfind |-> << "f", "b", "b" >> ] => ret.value
        /\ call = [ stext |-> FooBarBaz, sfind |-> << "f", "b", "x" >> ] => ~ret.value

C4_Witness ==
    /\ ret.fn = "is_fuzzy_match"
    /\ call = [ stext |-> FooBarBaz, sfind |-> << "f", "b", "b" >> ]
    /\ ret.value

\* Where the segments of s start when s is cut at each uppercase letter.
CaseCuts(s) == { i \in 1..Len(s) : i = 1 \/ is_AZ[s[i]] }

\* The j-th segment of s cut at each uppercase letter.
CaseSegment(s, j) ==
    LET cuts == CaseCuts(s)
        from == NthOf(cuts, j)
        to == IF j = Cardinality(cuts) THEN Len(s) ELSE NthOf(cuts, j + 1) - 1
    IN  SubSeq(s, from, to)

\* The prefix has no more segments than the candidate, and every segment of
\* the prefix starts the candidate's segment of the same index.
CaseSplitAccepts(s, begin) ==
    /\ Cardinality(CaseCuts(begin)) <= Cardinality(CaseCuts(s))
    /\ \A j \in 1..Cardinality(CaseCuts(begin)) :
           startswith(CaseSegment(s, j), CaseSegment(begin, j))

\* C8: with fuzzy off and case-split on, for a candidate and a prefix with equal
\* first characters, the case-split strategy accepts iff the prefix has at most
\* as many segments as the candidate and each candidate segment starts with the
\* prefix segment of its index; what it accepts the chain accepts, and what it
\* rejects the chain accepts only through the underscore-split or the plain
\* test.  ("PropLexerFile", "PLF") is accepted, ("PropLexerFile", "PXF") is
\* rejected by the whole chain.
C8_CaseSplit ==
    ( /\ ret.fn = "is_text_with_begin"
      /\ ~option_fuzzy /\ option_case_split
      /\ call.stext[1] = call.sfind[1] ) =>
        LET s == call.stext
            begin == call.sfind
            accepts == CaseSplitAccepts(s, begin)
        IN  /\ case_split_match(s, begin) = accepts
            /\ accepts => ret.value
            /\ ( /\ ~accepts
                 /\ ~(option_underscore_split /\ underscore_split_match(s, begin))
                 /\ ~is_plain_match(s, begin) ) => ~ret.value
            /\ call = [ stext |-> PropLexerFile, sfind |-> << "P", "L", "F" >> ]
                   => ret.value
            /\ call = [ stext |-> PropLexerFile, sfind |-> << "P", "X", "F" >> ]
                   => ~ret.value

C8_Witness ==
    /\ ret.fn = "is_text_with_begin"
    /\ ~option_fuzzy /\ option_case_split
    /\ call = [ stext |-> PropLexerFile, sfind |-> << "P", "L", "F" >> ]
    /\ ~is_plain_match(call.stext, call.sfind)
    /\ ret.value

\* Where the underscore-separated segments of s start.
SegmentStarts(s) == { i \in 1..Len(s) : s[i] # "_" /\ (i = 1 \/ s[i - 1] = "_") }

\* s still contains an underscore once its leading and trailing underscores
\* are gone: an underscore lies between two other characters.
HasInnerUnderscore(s) ==
    \E i, j, k \in 1..Len(s) : i < j /\ j < k /\ s[i] # "_" /\ s[j] = "_" /\ s[k] # "_"

\* Every character of the prefix is the first character of the segment of the
\* same index, letter case ignored unless the comparison is case-sensitive.
InitialsAccept(s, begin) ==
    LET starts == SegmentStarts(s)
        fold(c) == IF option_case_sens THEN c ELSE char_lower[c]
    IN  /\ Len(begin) <= Cardinality(starts)
        /\ \A i \in 1..Len(begin) : fold(begin[i]) = fold(s[NthOf(starts, i)])

\* C9: with fuzzy off and underscore-split on, a candidate that still contains
\* an underscore after its leading and trailing underscores are stripped is
\* accepted whenever the prefix is no longer than the number of segments and
\* each of its characters equals the first character of the segment of the same
\* index (letter case ignored when case_sens is off); "plf" matches
\* "prop_lexer_file".
C9_UnderscoreInitials ==
    ( /\ ret.fn = "is_text_with_begin"
      /\ ~option_fuzzy /\ option_underscore_split
      /\ HasInnerUnderscore(call.stext)
      /\ InitialsAccept(call.stext, call.sfind) ) => ret.value

C9_Witness ==
    /\ ret.fn = "is_text_with_begin"
    /\ ~option_fuzzy /\ option_underscore_split /\ ~option_case_split
    /\ call = [ stext |-> prop_lexer_file, sfind |-> << "p", "l", "f" >> ]
    /\ ~is_plain_match(call.stext, call.sfind)
    /\ ret.value

\* C10: when fuzzy is on, the verdict of is_text_with_begin is the verdict of
\* is_fuzzy_match, whatever the case-split, underscore-split and case_sens
\* options are.
C10_FuzzySupersedes ==
    (ret.fn = "is_text_with_begin" /\ option_fuzzy) =>
        ret.value = is_fuzzy_match(call.stext, call.sfind)

\* Fuzzy on together with both split options, on a candidate only the fuzzy
\* test accepts.
C10_Witness ==
    /\ ret.fn = "is_text_with_begin"
    /\ option_fuzzy /\ option_case_split /\ option_underscore_split
    /\ ~case_split_match(call.stext, call.sfind)
    /\ ~underscore_split_match(call.stext, call.sfind)
    /\ ~plain_fallback(call.stext, call.sfind)
    /\ ret.value

(***************************************************************************)
(* One activation of spl_match, statement by statement.  The activations   *)
(* it calls are evaluated by spl_match and recorded in spl.calls.          *)
(***************************************************************************)

MaxBegin == 3
MaxWords == 2
MaxSeg == 2

SplAlphabet == { "p", "l" }

\* What re.findall('[^_]+', ss) gives: one or more non-empty segments.
SplSegments == StrsUpTo(SplAlphabet, MaxSeg) \ { << >> }
SplWordLists == UNION { [ 1..k -> SplSegments ] : k \in 1..MaxWords }

prop == << "p", "r", "o", "p" >>
lexer == << "l", "e", "x", "e", "r" >>
file == << "f", "i", "l", "e" >>

SplExamples ==
    { << << "p", "l" >>, << prop, lexer, file >> >>,
      << << "p", "p", "l", "f" >>, << prop, prop, lexer, file >> >>,
      << << "p", "r", "l", "e", "f" >>, << prop, lexer, file >> >>,
      << << "p", "r", "o", "l", "f" >>, << prop, << "o", "l" >>, file >> >>,
      << << "p", "l", "x" >>, << prop, lexer, file >> >> }

SplInputs ==
    ((StrsUpTo(SplAlphabet, MaxBegin) \ { << >> }) \X SplWordLists) \cup SplExamples

InitSpl ==
    /\ DefaultOptions /\ NoHost /\ NoCall
    /\ \E in \in SplInputs :
           spl = [ pc |-> "start", begin |-> in[1], words |-> in[2],
                   common_len |-> 0, todo |-> {}, calls |-> << >>, result |-> FALSE ]

UnchangedButSpl ==
    UNCHANGED << option_lexers, option_min_len, option_case_sens, option_what_editors,
                 option_max_lines, option_use_acp, option_show_acp_first,
                 option_case_split, option_underscore_split, option_fuzzy,
                 nonwords, ed_self, carets,
                 request, res, completed, scanned, acp_read, call, ret >>

\* From the entry of spl_match to the for statement, or to the return before it.
SplEnter ==
    /\ spl.pc = "start"
    /\ LET common_len == spl_common_len(spl.begin, spl.words[1])
       IN  spl' =
               IF common_len > 0 /\ Len(spl.begin) = common_len
               THEN [ spl EXCEPT !.pc = "done", !.common_len = common_len,
                                 !.result = TRUE ]
               ELSE IF common_len > 0 /\ Len(spl.words) # 1
               THEN [ spl EXCEPT !.pc = "loop", !.common_len = common_len,
                                 !.todo = spl_range(common_len) ]
               ELSE [ spl EXCEPT !.pc = "done", !.common_len = common_len,
                                 !.result = FALSE ]
    /\ UnchangedButSpl

\* One iteration of the for loop: the recursive call and the test of its result.
SplCall ==
    /\ spl.pc = "loop"
    /\ spl.todo # {}
    /\ LET i == CHOOSE x \in spl.todo : \A y \in spl.todo : x <= y
           rest == spl_rest(spl.begin, spl.common_len, i)
           r == spl_match(rest, Tail(spl.words))
           made == Append(spl.calls, [ begin |-> rest, words |-> Tail(spl.words),
                                       res |-> r ])
       IN  spl' =
               IF r
               THEN [ spl EXCEPT !.pc = "done", !.calls = made, !.result = TRUE ]
               ELSE [ spl EXCEPT !.todo = spl.todo \ { i }, !.calls = made ]
    /\ UnchangedButSpl

\* The loop is exhausted: the final return False.
SplReturnFalse ==
    /\ spl.pc = "loop"
    /\ spl.todo = {}
    /\ spl' = [ spl EXCEPT !.pc = "done", !.result = FALSE ]
    /\ UnchangedButSpl

NextSpl == SplEnter \/ SplCall \/ SplReturnFalse

SpecSpl == InitSpl /\ [][NextSpl]_vars

\* begin is p1 p2 ... pk, 1 <= k <= Len(words), each pj a non-empty leading
\* substring of words[j]: the pieces are delimited by a set of cut points
\* inside begin.
FitsConsecutively(begin, words) ==
    /\ begin # << >>
    /\ \E cuts \in SUBSET (1..(Len(begin) - 1)) :
           LET k == Cardinality(cuts) + 1
               ends == cuts \cup { Len(begin) }
               from(j) == IF j = 1 THEN 1 ELSE NthOf(ends, j - 1) + 1
           IN  /\ k <= Len(words)
               /\ \A j \in 1..k :
                      startswith(words[j], SubSeq(begin, from(j), NthOf(ends, j)))

\* C6: spl_match(prefix, segments) is true exactly when the prefix is a
\* concatenation of non-empty leading substrings of the segments, taken
\* consecutively from the first one; every partition is found, so
\* spl_match("pl", ["prop", "lexer", "file"]) is true.
C6_SplMatchFits ==
    spl.pc = "done" =>
        /\ spl.result = FitsConsecutively(spl.begin, spl.words)
        /\ spl_match(spl.begin, spl.words) = spl.result
        /\ (spl.begin = << "p", "l" >> /\ spl.words = << prop, lexer, file >>)
               => spl.result

\* A partition that is not the greedy one: the call for the greedy split
\* failed and a later one succeeded.
C6_Witness ==
    /\ spl.pc = "done"
    /\ spl.result
    /\ Len(spl.calls) >= 2
    /\ ~spl.calls[1].res

\* The case C7 is about: the common length is positive, does not consume the
\* prefix, and more than one segment remains.
SplLooped ==
    /\ spl.pc = "done"
    /\ spl.common_len > 0
    /\ spl.common_len < Len(spl.begin)
    /\ Len(spl.words) > 1

SplCallArgs == { [ begin |-> spl.calls[k].begin, words |-> spl.calls[k].words ] :
                     k \in 1..Len(spl.calls) }

\* C7 as claimed: the recursive calls are those for split points i = 1..c, each
\* on the suffix of the prefix that starts at offset c - i (none beyond the
\* first that returns true), and the result is true iff one of them is.
C7_Claimed ==
    SplLooped =>
        LET c == spl.common_len
            claimed == { [ begin |-> slice_from(spl.begin, c - i),
                           words |-> Tail(spl.words) ] : i \in 1..c }
        IN  /\ SplCallArgs \subseteq claimed
            /\ ~spl.result => SplCallArgs = claimed
            /\ spl.result = (\E a \in claimed : spl_match(a.begin, a.words))

\* C7 (amended): the recursive calls are those for i = 0..c-1 in ascending
\* order, each on the suffix of the prefix that starts at offset c - i (so at
\* offsets c, c-1, ..., 1), none beyond the first that returns true; the result
\* is true iff one of the calls for i = 0..c-1 is true.
C7_SplitPoints ==
    SplLooped =>
        LET c == spl.common_len
            n == Len(spl.calls)
        IN  /\ n >= 1 /\ n <= c
            /\ \A k \in 1..n :
                   /\ spl.calls[k].begin = slice_from(spl.begin, c - (k - 1))
                   /\ spl.calls[k].words = Tail(spl.words)
                   /\ spl.calls[k].res = (k = n /\ spl.result)
            /\ ~spl.result => n = c
            /\ spl.result =
                   (\E i \in 0..(c - 1) :
                        FitsConsecutively(slice_from(spl.begin, c - i), Tail(spl.words)))

\* Several split points were tried before the result was known.
C7_Witness ==
    /\ SplLooped
    /\ spl.common_len >= 2
    /\ Len(spl.calls) = spl.common_len
    /\ spl.result

(***************************************************************************)
(* The plugin in the editor: requests and what the user does between them  *)
(***************************************************************************)

\* Caret lists: one caret without selection at several places, one caret
\* with a selection, two carets.
CaretChoices ==
    { << << x, 0, -1, -1 >> >> : x \in { 0, 2, 3, 5 } }
    \cup { << << x, 1, -1, -1 >> >> : x \in { 2, 5, 9, 17 } }
    \cup { << << 2, 5, -1, -1 >> >>,
           << << 2, 0, 5, 0 >> >>,
           << << 2, 0, -1, -1 >>, << 2, 1, -1, -1 >> >> }

\* option_lexers values: the default list, and the list that allows all.
LexerLists == { DefaultLexers, << "*" >> }

\* The option settings requests are made under: the ini defaults but for
\* one group of options, which takes every value.  The groups: the matching
\* strategy; which tabs are scanned and for which lexers; the minimum length
\* and the dictionary.  (All tabs are scanned where the default is the
\* current one only.)  Plain matching alone is also taken with the scan of
\* the current tab only.
OptionProfile ==
    LET strategy_default ==
            option_fuzzy /\ ~option_case_split /\ ~option_underscore_split
                /\ option_case_sens
        scope_default ==
            option_lexers = DefaultLexers /\ option_what_editors = 1
                /\ option_max_lines = 10000
        output_default ==
            option_min_len = 3 /\ option_use_acp /\ ~option_show_acp_first
        plain_only ==
            ~option_fuzzy /\ ~option_case_split /\ ~option_underscore_split
        current_tab_only ==
            option_lexers = DefaultLexers /\ option_what_editors = 0
                /\ option_max_lines = 10000
    IN  \/ scope_default /\ output_default
        \/ strategy_default /\ output_default
        \/ strategy_default /\ scope_default
        \/ plain_only /\ current_tab_only /\ output_default

Init ==
    /\ option_lexers \in LexerLists
    /\ option_min_len \in { 2, 3 }
    /\ option_case_sens \in BOOLEAN
    /\ option_what_editors \in { 0, 1, 2 }
    /\ option_max_lines \in { 2, 10000 }
    /\ option_use_acp \in BOOLEAN
    /\ option_show_acp_first \in BOOLEAN
    /\ option_case_split \in BOOLEAN
    /\ option_underscore_split \in BOOLEAN
    /\ option_fuzzy \in BOOLEAN
    /\ OptionProfile
    /\ nonwords = << >>
    /\ ed_self = 1
    /\ carets = << << 0, 0, -1, -1 >> >>
    /\ request = [ fn |-> "none" ]
    /\ res = [ kind |-> "idle" ]
    /\ completed = [ kind |-> "idle" ]
    /\ scanned = {}
    /\ acp_read = << >>
    /\ NoCall /\ NoSpl

\* The user switches to another tab (the caret is where it was left there,
\* here the start of the text) or moves the caret(s) of the focused tab; what
\* the last request produced is gone.
ForgetRequest ==
    /\ request' = [ fn |-> "none" ]
    /\ res' = [ kind |-> "idle" ]
    /\ completed' = [ kind |-> "idle" ]
    /\ scanned' = {}
    /\ acp_read' = << >>
    /\ UnchangedOptions
    /\ UNCHANGED << nonwords, call, ret, spl >>

FocusTab(tab) ==
    /\ tab # ed_self
    /\ ed_self' = tab
    /\ carets' = << << 0, 0, -1, -1 >> >>
    /\ ForgetRequest

MoveCaret(cs) ==
    /\ cs # carets
    /\ carets' = cs
    /\ UNCHANGED ed_self
    /\ ForgetRequest

Next ==
    \/ OnComplete
    \/ \E with_acp \in BOOLEAN, ignore_lexer \in BOOLEAN :
           GetCompletions(with_acp, ignore_lexer)
    \/ \E tab \in 1..Len(editors) : FocusTab(tab)
    \/ \E cs \in CaretChoices : MoveCaret(cs)

Spec == Init /\ [][Next]_vars

(***************************************************************************)
(* Properties of a request                                                 *)
(***************************************************************************)

\* The last request returned a tuple.
Returned == res.kind = "tuple"

pl == << "p", "l" >>
plenty == << "p", "l", "e", "n", "t", "y" >>

\* C1: for every request that returns a result, no buffer candidate's word
\* equals left, equals left+right, or equals the word of an entry of the
\* dictionary candidate list the same request returned.
C1_NoRepeatedCandidate ==
    Returned =>
        \A i \in 1..Len(res.words) :
            /\ res.words[i] # res.word1
            /\ res.words[i] # res.word1 \o res.word2
            /\ \A j \in 1..Len(res.acp_entries) :
                   res.words[i] # res.acp_entries[j].word

\* A request on "pl|ease" returned buffer candidates while the scanned tabs
\* hold the tokens "pl", "please" and "plenty" and the dictionary list has an
\* entry for "plenty".
C1_Witness ==
    /\ Returned
    /\ res.word1 = pl /\ res.word2 = << "e", "a", "s", "e" >>
    /\ res.words # << >>
    /\ \E j \in 1..Len(res.acp_entries) : res.acp_entries[j].word = plenty
    /\ \E ed \in scanned :
           { pl, pl \o << "e", "a", "s", "e" >>, plenty }
               \subseteq get_words_list(editors[ed], get_regex(<< "p" >>, nonwords))

\* C2 as claimed: get_completions never returns a tuple whose two lists are
\* both empty, and on_complete never offers an empty completion list.
C2_Claimed ==
    /\ Returned => res.words_decorated # << >> \/ res.acp_words # << >>
    /\ completed.kind = "complete" => completed.word_list # << >>

\* The plain-prefix test of a word against left.
PlainPrefix(w, left) ==
    /\ Len(w) >= Len(left)
    /\ \A k \in 1..Len(left) :
           IF option_case_sens THEN w[k] = left[k]
           ELSE char_upper[w[k]] = char_upper[left[k]]

\* In ws the words that pass the plain-prefix test come first.
PlainGroupFirst(ws, left) ==
    \A i, j \in 1..Len(ws) :
        i < j /\ PlainPrefix(ws[j], left) => PlainPrefix(ws[i], left)

SameGroup(v, w, left) == PlainPrefix(v, left) <=> PlainPrefix(w, left)

\* The lines of the dictionary file the request read, header line left out.
AcpLinesRead ==
    LET lines0 == acp_files[acp_read[1]]
    IN  IF lines0 # << >> /\ startswith(lines0[1], << "#", "c", "h", "a", "r", "s" >>)
        THEN Tail(lines0) ELSE lines0

\* The lines of the file that entry e can have come from.
LinesOf(e) ==
    { k \in 1..Len(AcpLinesRead) :
        LET m == match_acp_line(rstrip_space(AcpLinesRead[k]))
        IN  /\ m # << >>
            /\ m[1].pre = e.pre /\ m[1].args = e.args /\ m[1].descr = e.descr
            /\ replace_pct20(m[1].word) = e.word }

\* C3: in each of the two returned lists the plain-prefix matches come before
\* the others; within either group the buffer candidates ascend alphabetically
\* and the dictionary candidates are in the order of their lines in the file.
C3_PlainFirstStable ==
    Returned =>
        /\ PlainGroupFirst(res.words, res.word1)
        /\ PlainGroupFirst([ j \in 1..Len(res.acp_entries) |-> res.acp_entries[j].word ],
                           res.word1)
        /\ \A i, j \in 1..Len(res.words) :
               i < j /\ SameGroup(res.words[i], res.words[j], res.word1)
                   => str_less(res.words[i], res.words[j])
        /\ \A i, j \in 1..Len(res.acp_entries) :
               i < j /\ SameGroup(res.acp_entries[i].word, res.acp_entries[j].word,
                                  res.word1)
                   => /\ LinesOf(res.acp_entries[i]) # {}
                      /\ \A b \in LinesOf(res.acp_entries[j]) :
                             \E a \in LinesOf(res.acp_entries[i]) : a < b

\* Both lists hold two plain-prefix matches and two other matches, and in
\* both a plain-prefix match stands after a word that sorts, or lies in the
\* file, behind it.
C3_Witness ==
    /\ Returned
    /\ \E i, j, k, l \in 1..Len(res.words) :
           /\ i < j /\ j < k /\ k < l
           /\ PlainPrefix(res.words[j], res.word1)
           /\ ~PlainPrefix(res.words[k], res.word1)
           /\ str_less(res.words[k], res.words[j])
    /\ \E i, j, k, l \in 1..Len(res.acp_entries) :
           /\ i < j /\ j < k /\ k < l
           /\ PlainPrefix(res.acp_entries[j].word, res.word1)
           /\ ~PlainPrefix(res.acp_entries[k].word, res.word1)
           /\ \E a \in LinesOf(res.acp_entries[j]), b \in LinesOf(res.acp_entries[k]) :
                  b < a

\* The items of a comma-separated list.
RECURSIVE CommaItems(_)
CommaItems(s) ==
    LET n == find(s, ",", 0)
    IN  IF n < 0 THEN { s }
        ELSE { SubSeq(s, 1, n) } \cup CommaItems(slice_from(s, n + 1))

\* The language of the focused tab is in the allowed set.
LanguageAllowed ==
    LET lex == editors[ed_self].lexer_file[1]
    IN  \/ << "*" >> \in CommaItems(option_lexers)
        \/ lower(lex) \in CommaItems(lower(option_lexers))

\* The word characters of the language of the focused tab.
WordChar(c) ==
    LET lex == editors[ed_self].lexer_file[1]
    IN  /\ c \notin { " ", "\t" }
        /\ ~char_in(c, IF lex \in DOMAIN nonword_chars
                       THEN nonword_chars[lex] ELSE NONWORDS_DEFAULT)

\* The caret of the request is in a line of the focused tab.
CaretInLine ==
    /\ carets[1][2] \in 0..(Len(editors[ed_self].lines) - 1)
    /\ carets[1][1] \in 0..Len(editors[ed_self].lines[carets[1][2] + 1])

\* left: the word characters that end at the caret.
Left ==
    LET s == editors[ed_self].lines[carets[1][2] + 1]
        x == carets[1][1]
        x0 == CHOOSE n \in 0..x :
                  /\ \A k \in (n + 1)..x : WordChar(s[k])
                  /\ n = 0 \/ ~WordChar(s[n])
    IN  SubSeq(s, x0 + 1, x)

\* C5: a request yields no candidates, scans no document and reads no
\* dictionary when the language is not allowed and the lexer check is not
\* bypassed, or left is empty, or left starts with a digit.
C5_Rejected ==
    /\ request.fn # "none"
    /\ \/ ~LanguageAllowed /\ ~request.ignore_lexer
       \/ CaretInLine /\ Left = << >>
       \/ CaretInLine /\ Left # << >> /\ isdigit[Left[1]]
    => /\ res.kind # "tuple"
       /\ completed.kind # "complete"
       /\ scanned = {}
       /\ acp_read = << >>

\* A request in a php tab, which the default list of lexers does not allow,
\* with "pl" left of the caret, yielded nothing.
C5_Witness ==
    /\ request.fn = "get_completions" /\ ~request.ignore_lexer
    /\ editors[ed_self].lexer_file = << php >>
    /\ ~LanguageAllowed
    /\ CaretInLine /\ Left = pl
    /\ res.kind = "None"

(***************************************************************************)
(* The strategy chain without fuzzy                                        *)
(***************************************************************************)

\* The underscore-separated segments of s, in order.
UnderscoreSegments(s) ==
    LET starts == SegmentStarts(s)
    IN  [ j \in 1..Cardinality(starts) |->
            LET from == NthOf(starts, j)
                to == CHOOSE e \in from..Len(s) :
                          /\ \A k \in from..e : s[k] # "_"
                          /\ e = Len(s) \/ s[e + 1] = "_"
            IN  SubSeq(s, from, to) ]

\* The underscore-split test: the candidate keeps an underscore once its
\* leading and trailing underscores are gone, and the initials test or the
\* consecutive fit into its segments succeeds, letter case ignored unless
\* the comparison is case-sensitive.
UnderscoreSplitAccepts(s, begin) ==
    LET fold(t) == IF option_case_sens THEN t ELSE lower(t)
    IN  /\ HasInnerUnderscore(s)
        /\ \/ InitialsAccept(s, begin)
           \/ FitsConsecutively(fold(begin), UnderscoreSegments(fold(s)))

\* C11: with fuzzy off, is_text_with_begin(candidate, left) is true iff
\* case-split is on and its test succeeds, or underscore-split is on and the
\* initials test or spl_match succeeds, or the plain-prefix test under the
\* configured case rule succeeds; with both split options off it is the
\* plain-prefix test, so a candidate that is only a fuzzy subsequence is
\* rejected.
C11_ChainWithoutFuzzy ==
    (ret.fn = "is_text_with_begin" /\ ~option_fuzzy) =>
        LET s == call.stext
            begin == call.sfind
        IN  /\ ret.value =
                   ( \/ option_case_split /\ CaseSplitAccepts(s, begin)
                     \/ option_underscore_split /\ UnderscoreSplitAccepts(s, begin)
                     \/ PlainPrefix(s, begin) )
            /\ ~option_case_split /\ ~option_underscore_split
                   => ret.value = PlainPrefix(s, begin)
            /\ ( /\ ~option_case_split /\ ~option_underscore_split
                 /\ ~PlainPrefix(s, begin)
                 /\ IsSubsequence(upper(begin), upper(s)) ) => ~ret.value

\* Fuzzy and both split options off: "te" is a subsequence of
\* "other_te_thing" but not its prefix, and the candidate was rejected.
C11_Witness ==
    /\ ret.fn = "is_text_with_begin"
    /\ ~option_fuzzy /\ ~option_case_split /\ ~option_underscore_split
    /\ call = [ stext |-> other_te_thing, sfind |-> << "t", "e" >> ]
    /\ IsSubsequence(upper(call.sfind), upper(call.stext))
    /\ ~ret.value

(***************************************************************************)
(* The scanner called directly                                             *)
(***************************************************************************)

MaxLineLen == 3

ScanAlphabet == { "p", "P", "l", "$", ".", " ", "emdash" }

pla == << "p", "l", "a" >>

\* Lines of a document: all short lines over the alphabet, and some longer.
ScanLines ==
    StrsUpTo(ScanAlphabet, MaxLineLen)
    \cup { pl \o << " " >> \o pl \o << "e", "a", "s", "e", " " >> \o plenty,
           << "$" >> \o pla \o << " ", "a", "$" >> \o pla \o << " ", "$", "$" >> \o pla,
           << "p", ".", "p", "l", " ", "p", "l", "l", "emdash", "x", " ", "$", "P", "l", "a" >>,
           << "p", "\\", "l", " ", "p", "<", "l", " ", "9" >> \o pla }

\* Documents: one line, or several of the longer lines.
ScanDocs ==
    { << l >> : l \in ScanLines }
    \cup { << pla, << >>, << "$" >> \o pla >>,
           << pl \o << "$" >>, pla >>,
           << << "x" >>, << "P" >> \o pl, << >>, pla \o << " " >> \o pla >> }

\* Values of the global nonwords: the default; '$' kept inside words; '.'
\* kept inside words; the backslash kept inside words, alone and with '<'.
ScanNonwords ==
    { NONWORDS_DEFAULT,
      SelectSeq(NONWORDS_DEFAULT, LAMBDA ch : ch # "$"),
      SelectSeq(NONWORDS_DEFAULT, LAMBDA ch : ch # "."),
      SelectSeq(NONWORDS_DEFAULT, LAMBDA ch : ch # "\\"),
      SelectSeq(NONWORDS_DEFAULT, LAMBDA ch : ch \notin { "\\", "<" }) }

\* word1 as get_word gives it: characters that isword accepts, the first
\* not a digit.
ScanLefts ==
    { << "p" >>, pl, << "P", "l" >>, << "l" >>, << "$", "p" >> }

\* The options the scanner reads, one group of them away from the defaults.
InitScan ==
    /\ option_lexers = DefaultLexers
    /\ option_what_editors = 0
    /\ option_use_acp = TRUE
    /\ option_show_acp_first = FALSE
    /\ option_case_split = FALSE
    /\ option_underscore_split = FALSE
    /\ option_fuzzy = TRUE
    /\ option_min_len \in 1..4
    /\ option_case_sens \in BOOLEAN
    /\ option_max_lines \in { 1, 2, 10000 }
    /\ nonwords \in ScanNonwords
    /\ \/ option_max_lines = 10000 /\ nonwords = NONWORDS_DEFAULT
       \/ option_min_len = 3 /\ option_case_sens /\ nonwords = NONWORDS_DEFAULT
       \/ option_min_len = 3 /\ option_case_sens /\ option_max_lines = 10000
    /\ ed_self = 0
    /\ carets = << >>
    /\ request = [ fn |-> "none" ]
    /\ res = [ kind |-> "idle" ]
    /\ completed = [ kind |-> "idle" ]
    /\ scanned = {}
    /\ acp_read = << >>
    /\ NoSpl
    /\ \E d \in ScanDocs, w \in ScanLefts :
           /\ \A k \in 1..Len(w) : isword(w[k], nonwords)
           /\ call = [ lines |-> d, word1 |-> w ]
    /\ ret = [ fn |-> "none" ]

\* regex = get_regex(word1[0], nonwords) and get_words_list(e, regex), as
\* get_completions calls them for one document.
CallWordsList ==
    /\ \E regex \in { get_regex(<< call.word1[1] >>, nonwords) } :
           ret' = IF get_words_list_raises([ lines |-> call.lines ], regex)
                  THEN [ fn |-> "get_words_list", kind |-> "raise" ]
                  ELSE [ fn |-> "get_words_list", kind |-> "list",
                         value |-> get_words_list([ lines |-> call.lines ], regex) ]
    /\ UnchangedButRet

NextScan == CallWordsList

SpecScan == InitScan /\ [][NextScan]_vars

\* The scan returned a list.
Scanned == ret.fn = "get_words_list" /\ ret.kind = "list"

\* The tokens the pattern of the request finds in one line taken alone.
TokensOfLine(l) ==
    LET found == findall_from(get_regex(<< call.word1[1] >>, nonwords), l, 1)
    IN  { found[i] : i \in 1..Len(found) }

\* C12: a document with more lines than option_max_lines yields no token
\* whatever it holds (it is skipped, not truncated); a document with at most
\* that many lines is scanned in full: every token of every line is returned.
C12_MaxLinesCap ==
    ret.fn = "get_words_list" =>
        /\ Len(call.lines) > option_max_lines => ret.kind = "list" /\ ret.value = {}
        /\ (Len(call.lines) <= option_max_lines /\ ret.kind = "list") =>
               ret.value = UNION { TokensOfLine(call.lines[i]) : i \in 1..Len(call.lines) }

\* A document one line over the cap whose first line has tokens gave none.
C12_Witness ==
    /\ Scanned
    /\ Len(call.lines) = option_max_lines + 1
    /\ TokensOfLine(call.lines[1]) # {}
    /\ ret.value = {}

\* The first character of left.
First == call.word1[1]

\* Token t starts with the sigil: its '$' is not the fixed first character.
HasSigil(t) == t[1] = "$" /\ First # "$"

\* The length of the run of word characters of token t, after the sigil and
\* the fixed first character.
RunLength(t) == Len(t) - 1 - (IF HasSigil(t) THEN 1 ELSE 0)

\* Line l holds, from position q to position e, a word that starts with the
\* first character of left and goes on with letters, digits and underscores
\* only: it stands at the start of the line or after a space, and at the end
\* of the line or before a space.
PlainWordAt(l, q, e) ==
    /\ q = 1 \/ l[q - 1] = " "
    /\ l[q] = First
    /\ \A k \in (q + 1)..e : is_w[l[k]]
    /\ e = Len(l) \/ l[e + 1] = " "

\* A document was scanned and a list came back: with the floor n for the run
\* of word characters, every token has a run of at least n characters and
\* every plain word with such a run is a token.
FloorIs(n) ==
    /\ \A t \in ret.value : RunLength(t) >= n
    /\ \A i \in 1..Len(call.lines) :
           \A q \in 1..Len(call.lines[i]), e \in 1..Len(call.lines[i]) :
               (PlainWordAt(call.lines[i], q, e) /\ e - q >= n)
                   => SubSeq(call.lines[i], q, e) \in ret.value

ScannedWithinCap == Scanned /\ Len(call.lines) <= option_max_lines

\* C14 as claimed: the floor of the run is max(1, minLength - len(left)), left
\* being the typed prefix.
C14_Claimed ==
    (ScannedWithinCap /\ is_w[First]) =>
        FloorIs(max(1, option_min_len - Len(call.word1)))

\* C14: the scan pattern is built from the first character of left alone: the
\* run of word characters after it has at least max(1, minLength - 1)
\* characters in every token, and every word whose run meets that floor is a
\* token.
C14_RunFloor ==
    (ScannedWithinCap /\ is_w[First]) => FloorIs(max(1, option_min_len - 1))

\* left has two characters, min_len is 3, and the document holds a word of
\* two characters and a longer one that start with the first character of
\* left: the longer one is a token, the shorter one is not.
C14_Witness ==
    /\ ScannedWithinCap
    /\ Len(call.word1) = 2 /\ option_min_len = 3
    /\ \E q, e \in 1..Len(call.lines[1]) :
           /\ PlainWordAt(call.lines[1], q, e) /\ e - q = 1
           /\ SubSeq(call.lines[1], q, e) \notin ret.value
    /\ \E q, e \in 1..Len(call.lines[1]) :
           /\ PlainWordAt(call.lines[1], q, e) /\ e - q >= 2
           /\ SubSeq(call.lines[1], q, e) \in ret.value

\* A character belongs to a word: it is a letter, a digit or an underscore,
\* or it is not in the boundary set of the request (the characters of
\* nonwords, the space and the tab; a line break is never part of a line).
InWord(c) ==
    \/ is_w[c]
    \/ c \notin { " ", "\t", "\n" } /\ ~char_in(c, nonwords)

\* The scan of the document with the class of the pattern replaced by the
\* characters that belong to a word.
ScanByWordChars ==
    LET pattern == [ get_regex(<< First >>, nonwords) EXCEPT
                       !.in_class = { c \in Chars : InWord(c) }, !.valid = TRUE ]
        found == findall_from(pattern, get_text_all([ lines |-> call.lines ]), 1)
    IN  { found[i] : i \in 1..Len(found) }

\* C15 as claimed: the run of a token goes on over exactly the characters
\* that are letters, digits or underscores or are not in the boundary set, so
\* the scanner and isword agree on the characters of a word.
C15_Claimed ==
    (ret.fn = "get_words_list" /\ Len(call.lines) <= option_max_lines) =>
        /\ ret.kind = "list"
        /\ ret.value = ScanByWordChars
        /\ \A i \in 1..Len(call.lines) : \A k \in 1..Len(call.lines[i]) :
               isword(call.lines[i][k], nonwords) = InWord(call.lines[i][k])

\* C16 as claimed: every token begins with the first character of left
\* exactly, or with one '$' and then that character, also when case_sens is off.
C16_Claimed ==
    Scanned =>
        \A t \in ret.value :
            \/ t[1] = First
            \/ t[1] = "$" /\ Len(t) >= 2 /\ t[2] = First

\* The character c is the first character of left: the same character, or
\* when case_sens is off the same letter in either case.
IsFirst(c) ==
    IF option_case_sens THEN c = First ELSE char_lower[c] = char_lower[First]

\* C16: every token begins with the first character of left, or with one '$'
\* and then that character; the character is the same one when case_sens is
\* on, and the same letter in either case when case_sens is off.
C16_TokenStart ==
    Scanned =>
        \A t \in ret.value :
            \/ IsFirst(t[1])
            \/ t[1] = "$" /\ Len(t) >= 2 /\ IsFirst(t[2])

\* case_sens is off and the scan for "p" returned a token that starts with
\* "p" and one that starts with "$P".
C16_Witness ==
    /\ Scanned
    /\ ~option_case_sens
    /\ First = "p"
    /\ \E t \in ret.value : t[1] = "p"
    /\ \E t \in ret.value : t[1] = "$" /\ t[2] = "P"

(***************************************************************************)
(* Properties of a request: documents, dictionary, end to end              *)
(***************************************************************************)

\* right: the word characters that start at the caret.
Right ==
    LET s == editors[ed_self].lines[carets[1][2] + 1]
        x == carets[1][1]
        x1 == CHOOSE n \in x..Len(s) :
                  /\ \A k \in (x + 1)..n : WordChar(s[k])
                  /\ n = Len(s) \/ ~WordChar(s[n + 1])
    IN  SubSeq(s, x + 1, x1)

\* The last request got as far as scanning documents.
ScanDone == request.fn # "none" /\ scanned # {} /\ res.kind \in { "None", "tuple" }

\* The scanned documents that are not over the max-lines cap.
WithinCap == { ed \in scanned : Len(editors[ed].lines) <= option_max_lines }

\* The tokens of the scanned document ed.
TokensOf(ed) == get_words_list(editors[ed], get_regex(<< Left[1] >>, nonwords))

\* The elements of a list.
Range(f) == { f[i] : i \in 1..Len(f) }

\* What the dictionary gives for the request: nothing when it is not asked for.
Dictionary ==
    IF request.with_acp
    THEN get_acp_words(editors[ed_self].lexer_caret, Left, Right)
    ELSE [ files |-> << >>, acp_words |-> << >>, entries |-> << >>, words |-> {} ]

\* The tokens of the documents within the cap that match left and are neither
\* left nor left+right.
MatchingTokens ==
    { w \in UNION { TokensOf(ed) : ed \in WithinCap } :
        is_text_with_begin(w, Left) /\ w # Left /\ w # Left \o Right }

\* C13: when several documents are scanned and some are over the max-lines
\* cap or have no tokens, the request is not aborted: it returns a result when
\* a document has a matching token or the dictionary a candidate, and the
\* result holds every matching token of the other documents (but those the
\* dictionary has) and the dictionary candidates.
C13_DocumentsIndependent ==
    ScanDone =>
        /\ (MatchingTokens # {} \/ Dictionary.acp_words # << >>) => Returned
        /\ Returned =>
               /\ MatchingTokens \ Dictionary.words \subseteq Range(res.words)
               /\ res.acp_words = Dictionary.acp_words

\* Three documents were scanned for "Pl": the third is over the cap, the
\* second has no token, the first has one that matches; the result has it
\* and has dictionary candidates.
C13_Witness ==
    /\ ScanDone /\ Returned
    /\ scanned = { 1, 2, 3 }
    /\ 3 \notin WithinCap
    /\ TokensOf(2) = {}
    /\ MatchingTokens # {}
    /\ res.words # << >>
    /\ res.acp_words # << >>

\* Only plain matching is active.
PlainOnly == ~option_fuzzy /\ ~option_case_split /\ ~option_underscore_split

please == pl \o << "e", "a", "s", "e" >>

\* The distinct tokens of the scanned documents that start with left, have
\* at least min_len characters and are neither left nor left+right.
PlainCandidates ==
    { w \in UNION { TokensOf(ed) : ed \in scanned } :
        /\ PlainPrefix(w, Left)
        /\ Len(w) >= option_min_len
        /\ w # Left /\ w # Left \o Right }

\* C17: with only plain matching active and no dictionary, the buffer
\* candidates are exactly the distinct tokens of the scanned documents that
\* start with left, have at least min_len characters and differ from left and
\* left+right, in ascending order, and the dictionary list is empty; left
\* "pl" in a document with "pl please plenty" and min_len 3 gives
\* ["please", "plenty"] and [].
C17_PlainEndToEnd ==
    (ScanDone /\ PlainOnly /\ acp_read = << >>) =>
        /\ PlainCandidates # {} => Returned
        /\ Returned =>
               /\ Range(res.words) = PlainCandidates
               /\ \A i, j \in 1..Len(res.words) :
                      i < j => str_less(res.words[i], res.words[j])
               /\ res.acp_words = << >>
        /\ ( /\ ed_self = 1 /\ scanned = { 1 }
             /\ Left = pl /\ Right = << >>
             /\ option_min_len = 3 /\ option_case_sens ) =>
               /\ Returned
               /\ res.words = << please, plenty >>
               /\ res.acp_words = << >>

\* The request of the example: the first tab alone is scanned for left "pl"
\* without the dictionary, and "please" and "plenty" come back.
C17_Witness ==
    /\ ScanDone /\ PlainOnly /\ ~request.with_acp
    /\ ed_self = 1 /\ scanned = { 1 }
    /\ Left = pl /\ Right = << >> /\ option_min_len = 3
    /\ Returned
    /\ res.words = << please, plenty >>

\* The dictionary file named after the language at the caret, and its
\* fallback variant.
PrimaryFile == editors[ed_self].lexer_caret \o << ".", "a", "c", "p" >>
FallbackFile == editors[ed_self].lexer_caret \o << "_", ".", "a", "c", "p" >>

Installed(f) == f \in DOMAIN acp_files

\* C20: when neither the dictionary file of the language nor its fallback
\* exists, no file is read, the dictionary list and the word set are empty and
\* the request gives what it gives with the dictionary switched off, without
\* an error; the primary file is read when it exists, the fallback only when
\* the primary does not.
C20_MissingDictionary ==
    (ScanDone /\ request.with_acp) =>
        /\ (~Installed(PrimaryFile) /\ ~Installed(FallbackFile)) =>
               /\ acp_read = << >>
               /\ Returned => res.acp_words = << >> /\ res.acp_set = {}
               /\ res = get_completions(ed_self, carets[1][1], carets[1][2],
                                        FALSE, TRUE).value
        /\ Installed(PrimaryFile) => acp_read = << PrimaryFile >>
        /\ (~Installed(PrimaryFile) /\ Installed(FallbackFile)) =>
               acp_read = << FallbackFile >>

\* A request with the dictionary asked for, at a caret whose language has
\* neither file, returned buffer candidates.
C20_Witness ==
    /\ ScanDone /\ request.with_acp
    /\ ~Installed(PrimaryFile) /\ ~Installed(FallbackFile)
    /\ Returned
    /\ res.words # << >>
    /\ res.acp_words = << >>

(***************************************************************************)
(* The dictionary reader called directly                                   *)
(***************************************************************************)

MaxAcpRest == 4

AcpAlphabet == { "p", "l", "(", "|", " ", "\t" }

chars_header == << "#", "c", "h", "a", "r", "s" >>

S_foreach == << "^", " ", "f", "o", "r", "e", "a", "c", "h", "(", "x", ")", "|",
                "l", "o", "o", "p", " ", "o", "v", "e", "r", " ", "x", "\n" >>

\* The lines of a dictionary file as readlines() gives them: a trigger, one
\* whitespace character and the rest of the line, then the line end.
AcpLines ==
    { << "^", sep >> \o rest \o << "\n" >> :
          sep \in { " ", "\t" }, rest \in StrsUpTo(AcpAlphabet, MaxAcpRest) }

\* Files with a header, blank lines, lines that are no entries, %20 words.
AcpExampleFiles ==
    { << chars_header \o << " ", ".", "\n" >>, S_foreach >>,
      << chars_header \o << "\n" >> >>,
      << >>,
      << S_foreach, chars_header \o << " ", "p", "l", "\n" >> >>,
      << << "v", " ", "p", "l", "%", "2", "0", "b", "\n" >>,
         << " ", "\t", "\n" >>,
         << "p", "l", "a", "\n" >>,
         << "v", " ", "p", "l", "a", "(", ")", "|", "d", " ", "\n" >> >>,
      << << "v", " ", "p", "%", "2", "0", "l", "\n" >>,
         << "v", " ", "p", "_", "l", "\n" >> >>,
      << << "^", " ", "f", "o", "o", "\t", "b", "a", "r", "(", "x", ")", "|", "d", "\n" >>,
         << "^", " ", "p", "l", "l", "\n" >>,
         << "^", " ", "P", "l", "\n" >> >> }

AcpLefts == { << "p" >>, << "p", "l" >>, << "f", "o" >>, << "p", "2" >> }

InitAcp ==
    /\ option_lexers = DefaultLexers
    /\ option_what_editors = 0
    /\ option_use_acp = TRUE
    /\ option_show_acp_first = FALSE
    /\ option_case_split = FALSE
    /\ option_underscore_split = FALSE
    /\ option_fuzzy \in BOOLEAN
    /\ option_case_sens = FALSE
    /\ option_max_lines = 10000
    /\ nonwords = NONWORDS_DEFAULT
    /\ ed_self = 0
    /\ carets = << >>
    /\ request = [ fn |-> "none" ]
    /\ res = [ kind |-> "idle" ]
    /\ completed = [ kind |-> "idle" ]
    /\ scanned = {}
    /\ acp_read = << >>
    /\ NoSpl
    /\ \/ /\ option_min_len \in { 1, 3 }
          /\ option_fuzzy
          /\ \E l \in AcpLines, w2 \in { << >>, << "l" >> } :
                 call = [ lines |-> << l >>, word1 |-> << "p" >>, word2 |-> w2 ]
       \/ /\ option_min_len \in { 1, 3, 5 }
          /\ \E f \in AcpExampleFiles, w1 \in AcpLefts, w2 \in { << >>, << "l" >> } :
                 call = [ lines |-> f, word1 |-> w1, word2 |-> w2 ]
    /\ ret = [ fn |-> "none" ]

\* get_acp_words(ed, word1, word2) once the file of the language is read.
CallAcpWords ==
    /\ ret' = [ fn |-> "get_acp_words",
                value |-> acp_parse(<< "f" >> \o acp_ext, call.lines,
                                    call.word1, call.word2) ]
    /\ UnchangedButRet

NextAcp == CallAcpWords

SpecAcp == InitAcp /\ [][NextAcp]_vars

AcpCalled == ret.fn = "get_acp_words"

Whitespace == { " ", "\t", "\n" }

\* The first position from p on where l has a character of S, Len(l) + 1
\* when there is none.
FirstIn(l, p, S) ==
    IF \E i \in p..Len(l) : l[i] \in S
    THEN CHOOSE i \in p..Len(l) : l[i] \in S /\ \A j \in p..(i - 1) : l[j] \notin S
    ELSE Len(l) + 1

TriggerEnd(l) == FirstIn(l, 1, Whitespace)

WordEnd(l) == FirstIn(l, TriggerEnd(l) + 1, Whitespace \cup { "(", "|" })

BarAt(l) == FirstIn(l, WordEnd(l), { "|" })

\* l is TRIGGER<space>WORD[ARGS][|DESCRIPTION].
OfEntryForm(l) ==
    /\ TriggerEnd(l) \in 2..Len(l)
    /\ l[TriggerEnd(l)] = " "
    /\ WordEnd(l) > TriggerEnd(l) + 1

\* The four parts of a line of that form: the word ends before the first "(",
\* whitespace or "|", the arguments run up to the "|", the description is the
\* rest.
EntryParts(l) ==
    [ pre   |-> SubSeq(l, 1, TriggerEnd(l) - 1),
      word  |-> SubSeq(l, TriggerEnd(l) + 1, WordEnd(l) - 1),
      args  |-> SubSeq(l, WordEnd(l), BarAt(l) - 1),
      descr |-> SubSeq(l, BarAt(l) + 1, Len(l)) ]

\* A word the reader emits for the request: long enough, beginning as the
\* typed text does, and not the typed text itself.
Emitted(w) ==
    /\ Len(w) >= option_min_len
    /\ is_text_with_begin(w, call.word1)
    /\ w # call.word1
    /\ w # call.word1 \o call.word2

HasHeader == call.lines # << >> /\ startswith(call.lines[1], chars_header)

LaterLines == IF HasHeader THEN Tail(call.lines) ELSE call.lines

\* The later lines without their line end and trailing blanks.
EntryLines ==
    { rstrip_space(LaterLines[i]) : i \in 1..Len(LaterLines) } \ { << >> }

Entries == Range(ret.value.entries)

\* C18 as stated: a leading #chars line gives no entry, and every later
\* non-blank line TRIGGER<space>WORD[ARGS][|DESCRIPTION] whose word is emitted
\* gives the entry with the trigger, the word ending before the first "(",
\* whitespace or "|", the arguments up to the "|" and the description after it.
C18_Claimed ==
    AcpCalled =>
        /\ Len(ret.value.entries) <= Cardinality({ i \in 1..Len(LaterLines) :
                                          rstrip_space(LaterLines[i]) # << >> })
        /\ \A l \in EntryLines :
               ( /\ OfEntryForm(l)
                 /\ Emitted(EntryParts(l).word)
                 /\ Emitted(replace_pct20(EntryParts(l).word)) ) =>
                   [ EntryParts(l) EXCEPT !.word = replace_pct20(@) ] \in Entries

\* C19 as stated: every dictionary candidate is at least minLength characters
\* long and is neither the left part nor the left part plus the right part.
C19_Claimed ==
    AcpCalled =>
        \A e \in Entries :
            /\ Len(e.word) >= option_min_len
            /\ e.word # call.word1
            /\ e.word # call.word1 \o call.word2

(***************************************************************************)
(* Relations between the matching functions                                *)
(***************************************************************************)

\* C24: with fuzzy and case-split off and underscore-split on, a candidate
\* that has no underscore left once its leading and trailing underscores are
\* stripped is accepted iff it passes the plain-prefix test against left: the
\* underscore-split strategy never accepts it.
C24_NoUnderscoreNoSplit ==
    ( /\ ret.fn = "is_text_with_begin"
      /\ ~option_fuzzy /\ ~option_case_split /\ option_underscore_split
      /\ ~HasInnerUnderscore(call.stext) ) =>
        ret.value = PlainPrefix(call.stext, call.sfind)

\* A candidate with a leading underscore only, whose single segment begins
\* with the prefix, was rejected.
C24_Witness ==
    /\ ret.fn = "is_text_with_begin"
    /\ ~option_fuzzy /\ ~option_case_split /\ option_underscore_split
    /\ ~HasInnerUnderscore(call.stext)
    /\ Len(call.stext) >= 2
    /\ call.stext[1] = "_"
    /\ call.stext[2] = call.sfind[1]
    /\ Len(call.sfind) = 1
    /\ ~ret.value

\* C29: under every combination of the fuzzy, case-split, underscore-split
\* and case_sens options, a candidate that passes is_plain_match against a
\* non-empty prefix is accepted by is_text_with_begin.
C29_PlainImpliesAccepted ==
    /\ ( /\ ret.fn = "is_plain_match"
         /\ call.sfind # << >>
         /\ ret.value ) => is_text_with_begin(call.stext, call.sfind)
    /\ ( /\ ret.fn = "is_text_with_begin"
         /\ call.sfind # << >>
         /\ PlainPrefix(call.stext, call.sfind) ) => ret.value

\* A candidate that passes the plain test only because letter case is
\* ignored, with both split options on and fuzzy off.
C29_Witness ==
    /\ ret.fn = "is_plain_match"
    /\ ret.value
    /\ ~option_fuzzy /\ option_case_split /\ option_underscore_split
    /\ ~option_case_sens
    /\ Len(call.sfind) = 2
    /\ ~startswith(call.stext, call.sfind)

\* The initials test on a prefix and a list of segments.
InitialsOf(begin, words) ==
    /\ Len(begin) <= Len(words)
    /\ \A i \in 1..Len(begin) : begin[i] = words[i][1]

\* C30: whenever the prefix is no longer than the list of segments and each
\* of its characters is the first character of the segment of the same index,
\* spl_match(prefix, segments) returns true.
C30_InitialsImplySplMatch ==
    (spl.pc = "done" /\ InitialsOf(spl.begin, spl.words)) =>
        /\ spl.result
        /\ spl_match(spl.begin, spl.words)

\* The initials of four segments, found through recursive calls.
C30_Witness ==
    /\ spl.pc = "done"
    /\ InitialsOf(spl.begin, spl.words)
    /\ Len(spl.begin) >= 3
    /\ spl.common_len = 1
    /\ Len(spl.calls) >= 1
    /\ spl.result

(***************************************************************************)
(* Properties of a request: the command, the offered list                  *)
(***************************************************************************)

\* C23: when there is more than one caret, or the single caret has a
\* selection, on_complete returns without calling get_completions: nothing is
\* scanned or read and no completion list is offered.
C23_CaretsRejected ==
    ( /\ request.fn = "on_complete"
      /\ Len(carets) > 1 \/ carets[1][4] >= 0 ) =>
        /\ res.kind = "not called"
        /\ completed.kind # "complete"
        /\ scanned = {}
        /\ acp_read = << >>

\* The command was invoked with a selection, at a caret where a request
\* returns candidates.
C23_Witness ==
    /\ request.fn = "on_complete"
    /\ Len(carets) = 1
    /\ carets[1][4] >= 0
    /\ get_completions(ed_self, carets[1][1], carets[1][2], option_use_acp,
                       FALSE).value.kind = "tuple"
    /\ res.kind = "not called"

\* C27: the list offered for completion is the dictionary candidates followed
\* by the buffer candidates when show_acp_first is set, else the buffer
\* candidates followed by the dictionary candidates, neither part interleaved
\* with the other; when the dictionary is not asked for, the dictionary part
\* is empty and no dictionary file is read.
C27_OfferedList ==
    /\ completed.kind = "complete" =>
           /\ request.fn = "on_complete"
           /\ option_show_acp_first =>
                  completed.word_list = res.acp_words \o res.words_decorated
           /\ ~option_show_acp_first =>
                  completed.word_list = res.words_decorated \o res.acp_words
    /\ (request.fn # "none" /\ ~request.with_acp) =>
           /\ acp_read = << >>
           /\ Returned => res.acp_words = << >>
           /\ completed.kind = "complete" =>
                  completed.word_list = res.words_decorated

\* Dictionary first, with both parts present.
C27_Witness ==
    /\ completed.kind = "complete"
    /\ option_show_acp_first
    /\ res.acp_words # << >>
    /\ res.words_decorated # << >>
    /\ completed.word_list[1] = res.acp_words[1]
    /\ completed.word_list[Len(completed.word_list)]
           = res.words_decorated[Len(res.words_decorated)]

\* The last request passed the checks that come before the scan.
Proceeds ==
    /\ request.fn # "none"
    /\ res.kind # "not called"
    /\ LanguageAllowed \/ request.ignore_lexer
    /\ CaretInLine
    /\ Left # << >>
    /\ ~isdigit[Left[1]]

\* Title of a tab as it is shown after a candidate.
ShownTitle(h) ==
    [ i \in 1..Len(editors[h].title) |->
        IF editors[h].title[i] = "|" THEN "/" ELSE editors[h].title[i] ]

RECURSIVE JoinedTitles(_)
JoinedTitles(tabs) ==
    IF tabs = << >> THEN << >>
    ELSE ShownTitle(tabs[1])
             \o (IF Len(tabs) > 1 THEN << ";", " " >> ELSE << >>)
             \o JoinedTitles(Tail(tabs))

\* What follows kind|word: nothing when only the current document is
\* scanned, else "|" and the titles of the scanned documents that hold the
\* word.
Provenance(w) ==
    LET found == SelectSeq([ h \in 1..Len(editors) |-> h ],
                           LAMBDA h : h \in scanned /\ w \in TokensOf(h))
    IN  IF option_what_editors = 0 \/ found = << >> THEN << >>
        ELSE << "|" >> \o JoinedTitles(found)

\* C22 as stated: each buffer candidate is kind|word, kind being "variable"
\* when the word begins with "$" and "plain" otherwise, under every
\* document-selection policy.
C22_Claimed ==
    Returned =>
        \A i \in 1..Len(res.words) :
            res.words_decorated[i] =
                (IF res.words[i][1] = "$"
                 THEN << "v", "a", "r", "i", "a", "b", "l", "e" >>
                 ELSE << "p", "l", "a", "i", "n" >>)
                    \o << "|" >> \o res.words[i]

\* C22 (amended): each buffer candidate is kind|word, kind being "var" when
\* the word begins with "$" and "text" otherwise; under the current-document
\* policy nothing follows the word, under the other two policies "|" and the
\* titles of the scanned documents that hold the word follow it, "; " between
\* them, a "|" in a title shown as "/".
C22_EmittedForm ==
    Returned =>
        /\ Len(res.words_decorated) = Len(res.words)
        /\ \A i \in 1..Len(res.words) :
               res.words_decorated[i] =
                   (IF res.words[i][1] = "$" THEN << "v", "a", "r" >>
                    ELSE << "t", "e", "x", "t" >>)
                       \o << "|" >> \o res.words[i] \o Provenance(res.words[i])

\* Under a multi-document policy, a word that begins with "$" was found in
\* two documents and another word in one.
C22_Witness ==
    /\ Returned
    /\ option_what_editors \in { 1, 2 }
    /\ \E i, j \in 1..Len(res.words) :
           /\ res.words[i][1] = "$"
           /\ Cardinality({ h \in scanned : res.words[i] \in TokensOf(h) }) = 2
           /\ res.words[j][1] # "$"
           /\ Cardinality({ h \in scanned : res.words[j] \in TokensOf(h) }) = 1

\* The documents the policy selects for the request.
Selected ==
    IF option_what_editors = 0 THEN { ed_self }
    ELSE IF option_what_editors = 1 THEN 1..Len(editors)
    ELSE { h \in 1..Len(editors) :
             editors[h].lexer_file = editors[ed_self].lexer_file }

\* C26: the documents given to the scanner in a request are the current
\* document alone under the 'current only' policy, every open document under
\* the 'all' policy, and the open documents with the language of the current
\* one under the 'same language' policy; no buffer candidate is a token of
\* other documents only.  (A selected document over the max-lines cap is
\* given to the scanner and yields no token.)
C26_ScannedDocuments ==
    Proceeds =>
        /\ scanned = Selected
        /\ Returned =>
               \A w \in Range(res.words) : \E h \in Selected : w \in TokensOf(h)

\* Under the 'same language' policy the document of another language has a
\* matching token that none of the selected documents has, and it is not
\* among the candidates.
C26_Witness ==
    /\ Proceeds
    /\ Returned
    /\ option_what_editors = 2
    /\ Selected # { ed_self }
    /\ \E h \in (1..Len(editors)) \ Selected :
           \E w \in TokensOf(h) :
               /\ is_text_with_begin(w, Left)
               /\ \A g \in Selected : w \notin TokensOf(g)
               /\ w \notin Range(res.words)

(***************************************************************************)
(* Requests do not depend on earlier requests                              *)
(***************************************************************************)

\* What the global nonwords may hold when a request starts: nothing (no
\* request yet), the boundary set an earlier request left for a lexer of the
\* open tabs, or that of some other document.
EntryNonwords ==
    { << >>, NONWORDS_DEFAULT, nonword_chars[php], << "l", "$", "." >> }

\* C21: the result of a request is determined by the documents, the caret,
\* the language, the options and the boundary set of the language: whatever
\* the global nonwords held when the request started (whatever requests were
\* made before), the request gives the result it gave, and so does the same
\* request made again, which scans the same documents a second time.
C21_RequestDeterminism ==
    (request.fn # "none" /\ res.kind # "not called") =>
        \A n0 \in EntryNonwords :
            get_completions_from(n0, ed_self, carets[1][1], carets[1][2],
                                 request.with_acp, request.ignore_lexer).value = res

\* A request returned candidates for "pl" taken from "$pla", where the
\* boundary set of another language would have split the line differently.
C21_Witness ==
    /\ request.fn # "none"
    /\ Returned
    /\ ed_self = 1
    /\ carets = << << 9, 1, -1, -1 >> >>
    /\ res.word1 = pl
    /\ nonwords = NONWORDS_DEFAULT
    /\ get_word(editors[ed_self].lines, 9, 1, nonword_chars[php])
           # << << res.word1, res.word2 >> >>

(***************************************************************************)
(* get_word called directly                                                *)
(***************************************************************************)

MaxWordLine == 3

WordAlphabet == { "p", "l", " ", "\t", ".", "$" }

WordLines ==
    StrsUpTo(WordAlphabet, MaxWordLine)
    \cup { << "p", "l", "emdash", "x", " ", "$", "p", "l", "a" >> }

\* Documents: one line, or three lines the second of which is empty.
WordDocs ==
    { << l >> : l \in WordLines }
    \cup { << pl, << >>, << "$" >> \o pla >>, << >> }

\* Values of the global nonwords: the default, and '$' kept inside words.
WordNonwords ==
    { NONWORDS_DEFAULT, SelectSeq(NONWORDS_DEFAULT, LAMBDA ch : ch # "$") }

InitWord ==
    /\ DefaultOptions
    /\ nonwords \in WordNonwords
    /\ ed_self = 0
    /\ carets = << >>
    /\ request = [ fn |-> "none" ]
    /\ res = [ kind |-> "idle" ]
    /\ completed = [ kind |-> "idle" ]
    /\ scanned = {}
    /\ acp_read = << >>
    /\ NoSpl
    /\ \E d \in WordDocs, x \in (-1)..(MaxWordLine + 1), y \in (-1)..3 :
           /\ y <= Len(d)
           /\ call = [ lines |-> d, x |-> x, y |-> y ]
    /\ ret = [ fn |-> "none" ]

\* word = get_word(ed_self, x0, y0), with the global nonwords as
\* get_completions has just assigned it.
CallGetWord ==
    /\ ret' = [ fn |-> "get_word",
                value |-> get_word(call.lines, call.x, call.y, nonwords) ]
    /\ UnchangedButRet

NextWord == CallGetWord

SpecWord == InitWord /\ [][NextWord]_vars

\* A word character: not space, not tab, not in the boundary set.
IsWordChar(c) == c \notin { " ", "\t" } \cup Range(nonwords)

\* The caret of the call is in no line, at column 0, or past the end of its
\* line.
NoSplit ==
    \/ call.y < 0 \/ call.y >= Len(call.lines)
    \/ call.x <= 0
    \/ call.x > Len(call.lines[call.y + 1])

\* t is the maximal run of word characters of s that ends at column x.
MaximalRunBefore(t, s, x) ==
    /\ Len(t) <= x
    /\ t = SubSeq(s, x - Len(t) + 1, x)
    /\ \A k \in 1..Len(t) : IsWordChar(t[k])
    /\ Len(t) = x \/ ~IsWordChar(s[x - Len(t)])

\* t is the maximal run of word characters of s that starts at column x.
MaximalRunAfter(t, s, x) ==
    /\ x + Len(t) <= Len(s)
    /\ t = SubSeq(s, x + 1, x + Len(t))
    /\ \A k \in 1..Len(t) : IsWordChar(t[k])
    /\ x + Len(t) = Len(s) \/ ~IsWordChar(s[x + Len(t) + 1])

\* The carets of the open tabs that are at column 0, past the end of a line
\* or in no line.
NoSplitCarets ==
    { << h, x, y >> \in (1..Len(editors)) \X (0..5) \X (0..3) :
          \/ y >= Len(editors[h].lines)
          \/ x = 0
          \/ x > Len(editors[h].lines[y + 1]) }

\* C25: get_word gives the pair (left, right), left the maximal run of word
\* characters that ends at the caret and right the maximal run that starts
\* there; with the caret at column 0, past the end of the line or in no line it
\* gives no pair, and a request at such a caret in an open tab gives no
\* candidates.
C25_WordAtCaret ==
    /\ ret.fn = "get_word" =>
           /\ NoSplit => ret.value = << >>
           /\ ~NoSplit =>
                  /\ Len(ret.value) = 1
                  /\ MaximalRunBefore(ret.value[1][1], call.lines[call.y + 1], call.x)
                  /\ MaximalRunAfter(ret.value[1][2], call.lines[call.y + 1], call.x)
    /\ ret.fn = "get_word" =>
           \A c \in NoSplitCarets, n0 \in WordNonwords :
               get_completions_from(n0, c[1], c[2], c[3], TRUE, TRUE).value.kind
                   = "None"

\* A caret inside a word that follows a boundary character: both parts are
\* non-empty.
C25_Witness ==
    /\ ret.fn = "get_word"
    /\ ~NoSplit
    /\ call.x = 2
    /\ ~IsWordChar(call.lines[call.y + 1][1])
    /\ ret.value[1][1] # << >>
    /\ ret.value[1][2] # << >>

(***************************************************************************)
(* The dictionary reader and the strategy chain                            *)
(***************************************************************************)

\* C28 as stated: the word of every dictionary candidate that is emitted, and
\* every word of the dictionary word set, satisfies is_text_with_begin against
\* left under the options in force.
C28_Claimed ==
    AcpCalled =>
        /\ \A e \in Entries : is_text_with_begin(e.word, call.word1)
        /\ \A w \in ret.value.words : is_text_with_begin(w, call.word1)

====
